---- MODULE Spec2Model ----
(***************************************************************************)
(* Model of the domain-hunter batch pipeline: the availability stage       *)
(* (src/src/check_domains.py), which writes the file of available domains, *)
(* and the scoring stage (src/src/ai_score_domains.py) and the pricing     *)
(* stage (src/src/domain_pricing.py) working on the shared domain_results  *)
(* table.                                                                  *)
(*                                                                         *)
(* Conventions                                                             *)
(*  - a Python str is a sequence of one-character strings, so that         *)
(*    substring tests, lower(), strip() and split() are computed;          *)
(*  - a nullable value is a sequence of length <= 1: None is <<>>,         *)
(*    a value x is <<x>>;                                                  *)
(*  - a float that is a quotient of integers is a fraction [num, den]      *)
(*    in lowest terms;                                                     *)
(*  - an action is one stretch of a coroutine between two suspension       *)
(*    points (await) of the asyncio event loop.                            *)
(***************************************************************************)
EXTENDS Integers, Sequences, FiniteSets, TLC

----------------------------------------------------------------------------
(* Nullable values *)

None == <<>>

Some(x) == <<x>>

IsNone(o) == o = <<>>

Get(o) == o[1]

----------------------------------------------------------------------------
(* Python str operations on sequences of characters *)

UpperChars == <<"A","B","C","D","E","F","G","H","I","J","K","L","M","N","O","P","Q","R","S","T","U","V","W","X","Y","Z">>

LowerChars == <<"a","b","c","d","e","f","g","h","i","j","k","l","m","n","o","p","q","r","s","t","u","v","w","x","y","z">>

LowerChar(c) ==
    IF \E i \in 1..Len(UpperChars) : UpperChars[i] = c
    THEN LowerChars[CHOOSE i \in 1..Len(UpperChars) : UpperChars[i] = c]
    ELSE c

\* str.lower()
Lower(s) == [i \in 1..Len(s) |-> LowerChar(s[i])]

\* sub in s
Contains(s, sub) ==
    \E i \in 0..(Len(s) - Len(sub)) : SubSeq(s, i + 1, i + Len(sub)) = sub

IsSpace(c) == c \in {" ", "\n", "\t"}

RECURSIVE LStrip(_)
LStrip(s) == IF s # <<>> /\ IsSpace(Head(s)) THEN LStrip(Tail(s)) ELSE s

RECURSIVE RStrip(_)
RStrip(s) ==
    IF s # <<>> /\ IsSpace(s[Len(s)]) THEN RStrip(SubSeq(s, 1, Len(s) - 1)) ELSE s

\* str.strip()
Strip(s) == RStrip(LStrip(s))

\* the position of the last "." of s, 0 when there is none
LastDot(s) ==
    IF \E i \in 1..Len(s) : s[i] = "."
    THEN CHOOSE i \in 1..Len(s) : s[i] = "." /\ \A j \in (i + 1)..Len(s) : s[j] # "."
    ELSE 0

\* domain.split('.')[-1]
TldOf(domain) == SubSeq(domain, LastDot(domain) + 1, Len(domain))

\* str(n) for a natural number n
RECURSIVE Str(_)
Str(n) ==
    LET digit == <<"0","1","2","3","4","5","6","7","8","9">>[(n % 10) + 1]
    IN  IF n < 10 THEN <<digit>> ELSE Str(n \div 10) \o <<digit>>

----------------------------------------------------------------------------
(* Fractions: the value of sum(...) / len(...) *)

RECURSIVE Gcd(_, _)
Gcd(a, b) == IF b = 0 THEN a ELSE Gcd(b, a % b)

\* num / den for den > 0, in lowest terms
Frac(num, den) ==
    LET g == Gcd(num, den)
    IN  [num |-> num \div g, den |-> den \div g]

\* float('nan'), the value of a sum with a NaN member
NaN == [num |-> 0, den |-> 0]

\* f >= n for a float f and an integer n: every comparison with NaN is false
FracGeq(f, n) == f # NaN /\ f.num >= n * f.den

----------------------------------------------------------------------------
(* The text of a scoring response, as a sequence of tokens.  Every token   *)
(* is a record [t, k, v]: the code fence, the language tag "json", a line  *)
(* break, a brace, a "key": number pair, a "key": "string" pair, a         *)
(* "key": NaN pair (json.loads accepts the literal NaN), a bare number, or *)
(* prose.                                                                  *)

Tok(t) == [t |-> t, k |-> "", v |-> 0]

\* the three backquotes that open or close a markdown code block
Fence == Tok("fence")

Lang == Tok("json")

NL == Tok("newline")

LBrace == Tok("lbrace")

RBrace == Tok("rbrace")

Prose == Tok("text")

Pair(k, v) == [t |-> "pair", k |-> k, v |-> v]

StrPair(k) == [t |-> "strpair", k |-> k, v |-> 0]

NanPair(k) == [t |-> "nanpair", k |-> k, v |-> 0]

BareNum(v) == [t |-> "num", k |-> "", v |-> v]

\* the index of the first occurrence of tok in s, 0 when there is none
FirstIndex(s, tok) ==
    IF \E i \in 1..Len(s) : s[i] = tok
    THEN CHOOSE i \in 1..Len(s) : s[i] = tok /\ \A j \in 1..(i - 1) : s[j] # tok
    ELSE 0

RECURSIVE LStripT(_)
LStripT(s) == IF s # <<>> /\ Head(s) = NL THEN LStripT(Tail(s)) ELSE s

RECURSIVE RStripT(_)
RStripT(s) ==
    IF s # <<>> /\ s[Len(s)] = NL THEN RStripT(SubSeq(s, 1, Len(s) - 1)) ELSE s

\* response_text.strip()
StripT(s) == RStripT(LStripT(s))

\* response_text.split(fence, 2)[1] for a text that starts with a fence
BetweenFences(s) ==
    LET rest == Tail(s)
        nxt == FirstIndex(rest, Fence)
    IN  IF nxt = 0 THEN rest ELSE SubSeq(rest, 1, nxt - 1)

\* the clean-up of a markdown code block before the first parse
CleanCodeBlock(text) ==
    IF text # <<>> /\ Head(text) = Fence
    THEN LET part == BetweenFences(text)
             nl == FirstIndex(part, NL)
             noLang == IF nl > 0 THEN SubSeq(part, nl + 1, Len(part)) ELSE part
             stripped == StripT(noLang)
         IN  IF stripped # <<>> /\ stripped[Len(stripped)] = Fence
             THEN StripT(SubSeq(stripped, 1, Len(stripped) - 1))
             ELSE stripped
    ELSE text

\* text.replace(fence + "json", "")
RECURSIVE DropFencedLang(_)
DropFencedLang(s) ==
    IF s = <<>> THEN <<>>
    ELSE IF Len(s) >= 2 /\ s[1] = Fence /\ s[2] = Lang
         THEN DropFencedLang(SubSeq(s, 3, Len(s)))
         ELSE <<Head(s)>> \o DropFencedLang(Tail(s))

\* text.replace(fence, "")
DropFences(s) == SelectSeq(s, LAMBDA tok : tok # Fence)

\* the aggressive clean-up of the fallback
AggressiveClean(response_text) ==
    LET cleaned == StripT(DropFences(DropFencedLang(response_text)))
        opened == IF cleaned # <<>> /\ Head(cleaned) = LBrace
                  THEN cleaned ELSE <<LBrace>> \o cleaned
    IN  IF opened[Len(opened)] = RBrace THEN opened ELSE opened \o <<RBrace>>

IsPairTok(tok) == tok.t \in {"pair", "strpair", "nanpair"}

\* json.loads: [ok] is FALSE for a JSONDecodeError; otherwise [object] says
\* whether the value is a JSON object and [pairs] are its members in order
JsonLoads(text) ==
    LET toks == SelectSeq(text, LAMBDA tok : tok # NL)
    IN  IF Len(toks) = 1 /\ toks[1].t = "num"
        THEN [ok |-> TRUE, object |-> FALSE, pairs |-> <<>>]
        ELSE IF /\ Len(toks) >= 2
                /\ toks[1] = LBrace
                /\ toks[Len(toks)] = RBrace
                /\ \A i \in 2..(Len(toks) - 1) : IsPairTok(toks[i])
             THEN [ok |-> TRUE, object |-> TRUE,
                   pairs |-> SubSeq(toks, 2, Len(toks) - 1)]
             ELSE [ok |-> FALSE, object |-> FALSE, pairs |-> <<>>]

\* the dict json.loads builds: the last member with a key wins
DictKeys(pairs) == {pairs[i].k : i \in 1..Len(pairs)}

DictGet(pairs, key) ==
    pairs[CHOOSE i \in 1..Len(pairs) :
            pairs[i].k = key /\ \A j \in (i + 1)..Len(pairs) : pairs[j].k # key]

\* data.get(key), as sqlite3 binds it: a NaN is stored as NULL, which is
\* what a missing key gives
DataGet(pairs, key) ==
    IF key \in DictKeys(pairs) /\ DictGet(pairs, key).t # "nanpair"
    THEN Some(DictGet(pairs, key).v)
    ELSE None

RECURSIVE SumOver(_, _)
SumOver(pairs, keys) ==
    IF keys = {} THEN 0
    ELSE LET key == CHOOSE x \in keys : TRUE
         IN  DictGet(pairs, key).v + SumOver(pairs, keys \ {key})

\* sum(data.values()) / len(data): [ok] is FALSE when the expression raises
\* (no .values() on a non-object, a str member, an empty dict); with a NaN
\* member the value is NaN
AverageOf(parsed) ==
    LET keys == DictKeys(parsed.pairs)
    IN  IF ~parsed.object
        THEN [ok |-> FALSE, avg |-> Frac(0, 1), raises |-> "AttributeError"]
        ELSE IF \E key \in keys : DictGet(parsed.pairs, key).t = "strpair"
             THEN [ok |-> FALSE, avg |-> Frac(0, 1), raises |-> "TypeError"]
             ELSE IF keys = {}
                  THEN [ok |-> FALSE, avg |-> Frac(0, 1), raises |-> "ZeroDivisionError"]
                  ELSE IF \E key \in keys : DictGet(parsed.pairs, key).t = "nanpair"
                       THEN [ok |-> TRUE, raises |-> "", avg |-> NaN]
                       ELSE [ok |-> TRUE, raises |-> "",
                             avg |-> Frac(SumOver(parsed.pairs, keys),
                                          Cardinality(keys))]

----------------------------------------------------------------------------
(* Bounds of the model *)

\* the number of domains the availability stage found Available
NumDomains == 3

\* the size of a scoring batch (batch_size = 100 in main) and of a pricing
\* batch (--batch-size), scaled down
BatchSize == 2

MaxBatchSize == 3

\* the runs of a stage that are started one after the other
MaxRuns == 2

\* the initial size of the scoring semaphore is any of 1..MaxSmallConcurrency
\* or the program's own value
MaxSmallConcurrency == 1

\* random.uniform(0, 1) falls on a grid of JitterRes points of [0, 1); a delay
\* is counted in units of 1 / JitterRes seconds
JitterRes == 2

----------------------------------------------------------------------------
(* The domain_results table *)

AllDomains ==
    << <<"a","b","c",".","i","o">>,
       <<"x","y","z",".","i","o">>,
       <<"a","b","c",".","a","i">>,
       <<"q","r","s",".","i","o">>,
       <<"d","e","f",".","i","o">>,
       <<"g","h","i",".","i","o">>,
       <<"j","k","l",".","i","o">>,
       <<"m","n","o",".","i","o">>,
       <<"t","u","v",".","i","o">>,
       <<"w","w","w",".","i","o">>,
       <<"z","z","z",".","i","o">>,
       <<"A","B","C",".","i","o">> >>

\* the domains of the rows with status Available of the CSV file
AvailableDomains == SubSeq(AllDomains, 1, NumDomains)

Domains == {AllDomains[i] : i \in 1..Len(AllDomains)}

ScoreKeys == {"memorability", "pronunciation", "visual_appeal", "brandability"}

\* a row without its id and timestamp; the row of a domain is None when the
\* table has no row for it
NewRow ==
    [memorability |-> None, pronunciation |-> None, visual_appeal |-> None,
     brandability |-> None, average_score |-> None, raw_json |-> None,
     error |-> None, price |-> None, price_type |-> None, pricing_data |-> None]

EmptyTable == [d \in Domains |-> None]

\* INSERT OR REPLACE INTO domain_results (domain, memorability, ..., error):
\* the row of the same domain, if any, is deleted and a new row inserted, the
\* columns that are not listed taking their default NULL
InsertResult(table, domain, result) ==
    [table EXCEPT ![domain] =
        Some([NewRow EXCEPT !.memorability = result.memorability,
                            !.pronunciation = result.pronunciation,
                            !.visual_appeal = result.visual_appeal,
                            !.brandability = result.brandability,
                            !.average_score = result.average_score,
                            !.raw_json = result.raw_json,
                            !.error = result.error])]

\* SELECT average_score FROM domain_results WHERE LOWER(domain) = ?, with
\* fetchone(): true iff the row found has a non-null average_score
DomainAlreadyProcessed(table, domain) ==
    LET normalized == Lower(Strip(domain))
        found == {d \in Domains : table[d] # None /\ Lower(d) = normalized}
    IN  /\ found # {}
        /\ LET first == CHOOSE d \in found : TRUE
           IN  Get(table[first]).average_score # None

\* SELECT domain FROM domain_results WHERE average_score IS NOT NULL, lowercased
GetAllProcessedDomains(table) ==
    {Lower(d) : d \in {x \in Domains :
                        table[x] # None /\ Get(table[x]).average_score # None}}

\* DomainsToScore without the test for the processed domains
DomainsToScoreAll(table, csv) == csv

\* the domains of the CSV that main still has to score, in the CSV's order
RECURSIVE DomainsToScore(_, _)
DomainsToScore(table, csv) ==
    IF csv = <<>> THEN <<>>
    ELSE LET rest == DomainsToScore(table, Tail(csv))
         IN  IF Lower(Strip(Head(csv))) \notin GetAllProcessedDomains(table)
             THEN <<Head(csv)>> \o rest
             ELSE rest

----------------------------------------------------------------------------
(* The scoring worker ai_score: what one answer of the API makes of one    *)
(* attempt                                                                 *)

\* the program's constants
MaxRetriesScoring == 3

RetryDelayScoring == 1

DefaultConcurrency == 20

MinConcurrency == 5

MaxConcurrency == 40

ConcurrencyDecrease == 5

ConcurrencyIncrease == 2

RateLimitThreshold == 5

HighScoreThreshold == 8

\* str(e) of the exceptions the API client raises
ExcRateLimit == <<"R","a","t","e"," ","l","i","m","i","t"," ","r","e","a","c","h","e","d"," ","f","o","r"," ","r","e","q","u","e","s","t","s">>

ExcAuth == <<"I","n","c","o","r","r","e","c","t"," ","A","P","I"," ","k","e","y"," ","p","r","o","v","i","d","e","d">>

ExcModel == <<"T","h","e"," ","m","o","d","e","l"," ","d","o","e","s"," ","n","o","t"," ","e","x","i","s","t">>

ExcConnection == <<"C","o","n","n","e","c","t","i","o","n"," ","e","r","r","o","r",".">>

\* str(e) of the exceptions the worker's own statements raise
PyMessage(raises) ==
    CASE raises = "AttributeError" -> <<"'","i","n","t","'"," ","o","b","j","e","c","t"," ","h","a","s"," ","n","o"," ","a","t","t","r","i","b","u","t","e"," ","'","v","a","l","u","e","s","'">>
      [] raises = "TypeError" -> <<"u","n","s","u","p","p","o","r","t","e","d"," ","o","p","e","r","a","n","d"," ","t","y","p","e","(","s",")"," ","f","o","r"," ","+",":"," ","'","i","n","t","'"," ","a","n","d"," ","'","s","t","r","'">>
      [] raises = "ZeroDivisionError" -> <<"d","i","v","i","s","i","o","n"," ","b","y"," ","z","e","r","o">>

JsonDecodeMessage == <<"E","x","p","e","c","t","i","n","g"," ","v","a","l","u","e",":"," ","l","i","n","e"," ","1"," ","c","o","l","u","m","n"," ","1"," ","(","c","h","a","r"," ","0",")">>

ScoringErrorTypes == {"JSON Error", "Rate Limit", "Auth Error", "Model Error", "Other Error"}

\* the tuple handed to insert_result for an accepted response, without its
\* first member, the domain, and with its floats as sqlite3 binds them: an
\* average that is NaN is stored as NULL
ScoreResult(pairs, avg, raw) ==
    [memorability |-> DataGet(pairs, "memorability"),
     pronunciation |-> DataGet(pairs, "pronunciation"),
     visual_appeal |-> DataGet(pairs, "visual_appeal"),
     brandability |-> DataGet(pairs, "brandability"),
     average_score |-> IF avg = NaN THEN None ELSE Some(avg),
     raw_json |-> Some(raw),
     error |-> None]

\* the tuple handed to insert_result for a failure, without the domain
ScoreError(raw, err_msg) ==
    [memorability |-> None, pronunciation |-> None,
     visual_appeal |-> None, brandability |-> None, average_score |-> None,
     raw_json |-> raw, error |-> Some(err_msg)]

\* What an attempt does: [retry] with the [delay] slept before the next
\* attempt, or the [result] written and returned; [success], [errors] and
\* [rate_limits] are added to batch_counter, with [high] the domain and its
\* average go to the high_scores, and every type of [counted] gets one more in
\* error_counts.
\* Accepted without the count of the success
AcceptedUncounted(pairs, avg, raw, counted) ==
    [retry |-> FALSE, delay |-> 0,
     result |-> ScoreResult(pairs, avg, raw),
     success |-> 0, errors |-> 0, rate_limits |-> 0,
     high |-> FracGeq(avg, HighScoreThreshold),
     counted |-> counted]

Accepted(pairs, avg, raw, counted) ==
    [retry |-> FALSE, delay |-> 0,
     result |-> ScoreResult(pairs, avg, raw),
     success |-> 1, errors |-> 0, rate_limits |-> 0,
     high |-> FracGeq(avg, HighScoreThreshold),
     counted |-> counted]

Failed(raw, err_msg, rate_limits, counted) ==
    [retry |-> FALSE, delay |-> 0,
     result |-> ScoreError(raw, err_msg),
     success |-> 0, errors |-> 1, rate_limits |-> rate_limits,
     high |-> FALSE, counted |-> counted]

Retried(delay) ==
    [retry |-> TRUE, delay |-> delay,
     result |-> ScoreError(None, <<>>),
     success |-> 0, errors |-> 0, rate_limits |-> 1,
     high |-> FALSE, counted |-> <<>>]

Min(a, b) == IF a < b THEN a ELSE b

Max(a, b) == IF a > b THEN a ELSE b

\* 2 ** attempt
RECURSIVE Pow2(_)
Pow2(n) == IF n = 0 THEN 1 ELSE 2 * Pow2(n - 1)

\* retry_delay * (2 ** attempt) + random.uniform(0, 1), in units of
\* 1 / JitterRes seconds, for the point jitter of the grid
BackoffDelay(base, attempt, jitter) == base * Pow2(attempt) * JitterRes + jitter

\* the handler "except Exception as e" of ai_score
OnException(msg, attempt, jitter) ==
    LET error_str == Lower(msg)
    IN  IF Contains(error_str, <<"r","a","t","e"," ","l","i","m","i","t">>) \/ Contains(error_str, <<"t","o","o"," ","m","a","n","y"," ","r","e","q","u","e","s","t","s">>)
        THEN IF attempt < MaxRetriesScoring - 1
             THEN Retried(BackoffDelay(RetryDelayScoring, attempt, jitter))
             ELSE Failed(None, <<"R","a","t","e"," ","l","i","m","i","t","e","d">>, 1, <<"Rate Limit">>)
        ELSE IF Contains(error_str, <<"a","u","t","h">>) \/ Contains(error_str, <<"k","e","y">>)
             THEN Failed(None, <<"A","u","t","h","e","n","t","i","c","a","t","i","o","n"," ","E","r","r","o","r",":"," ">> \o msg, 0, <<"Auth Error">>)
             ELSE IF Contains(error_str, <<"m","o","d","e","l">>)
                  THEN Failed(None, <<"M","o","d","e","l"," ","E","r","r","o","r",":"," ">> \o msg, 0, <<"Model Error">>)
                  ELSE Failed(None, <<"E","r","r","o","r",":"," ">> \o msg, 0, <<"Other Error">>)

\* the handler "except json.JSONDecodeError as e" of ai_score: the error is
\* counted, then the text is cleaned once more and parsed again
OnJsonError(response_text) ==
    LET cleaned_text == AggressiveClean(response_text)
        parsed == JsonLoads(cleaned_text)
        average == AverageOf(parsed)
    IN  IF parsed.ok /\ average.ok
        THEN Accepted(parsed.pairs, average.avg, cleaned_text, <<"JSON Error">>)
        ELSE Failed(Some(response_text), <<"J","S","O","N"," ","E","r","r","o","r",":"," ">> \o JsonDecodeMessage,
                    0, <<"JSON Error">>)

\* the body of the try of ai_score once the API has answered with content
OnResponse(content, attempt, jitter) ==
    LET response_text == CleanCodeBlock(StripT(content))
        parsed == JsonLoads(response_text)
        average == AverageOf(parsed)
    IN  IF ~parsed.ok
        THEN OnJsonError(response_text)
        ELSE IF ~average.ok
             THEN OnException(PyMessage(average.raises), attempt, jitter)
             ELSE Accepted(parsed.pairs, average.avg, response_text, <<>>)

\* one attempt of ai_score, for an answer api of the API: an exception
\* [exc, msg] or a completion [content]
ScoreAttempt(api, attempt, jitter) ==
    IF api.exc
    THEN OnException(api.msg, attempt, jitter)
    ELSE OnResponse(api.content, attempt, jitter)

----------------------------------------------------------------------------
(* The answers of the scoring API the model draws from *)

GoodObject ==
    <<LBrace, Pair("memorability", 8), Pair("pronunciation", 6),
      Pair("visual_appeal", 7), Pair("brandability", 9), RBrace>>

Unclosed ==
    <<LBrace, Pair("memorability", 9), Pair("pronunciation", 9),
      Pair("visual_appeal", 9), Pair("brandability", 9)>>

FiveKeys ==
    <<LBrace, Pair("memorability", 8), Pair("pronunciation", 6),
      Pair("visual_appeal", 7), Pair("brandability", 9), Pair("overall", 10), RBrace>>

OneKey == <<LBrace, Pair("memorability", 15), RBrace>>

\* NaN for one of the four keys
NanObject ==
    <<LBrace, Pair("memorability", 8), Pair("pronunciation", 6),
      Pair("visual_appeal", 7), NanPair("brandability"), RBrace>>

ScoringResponses ==
    { \* the object the prompt asks for
      GoodObject,
      NanObject,
      \* the same in a markdown code block with a language tag
      <<Fence, Lang, NL>> \o GoodObject \o <<NL, Fence>>,
      \* a fifth key
      FiveKeys,
      \* one key only, out of the range
      OneKey,
      \* the closing brace is missing
      Unclosed,
      \* prose instead of JSON
      <<Prose>>,
      \* an empty object
      <<LBrace, RBrace>>,
      \* a string where a number is asked for
      <<LBrace, StrPair("memorability"), Pair("pronunciation", 6),
        Pair("visual_appeal", 7), Pair("brandability", 9), RBrace>> }

\* str(e) of the InternalServerError of the API client
ExcServer == <<"T","h","e"," ","s","e","r","v","e","r"," ","h","a","d"," ","a","n"," ","e","r","r","o","r">>

ScoringExceptions == {ExcRateLimit, ExcAuth, ExcModel, ExcConnection, ExcServer}

\* the API refuses the key: the client raises its AuthenticationError
AuthFailure(api) == api.exc /\ api.msg = ExcAuth

Raises(m) == [exc |-> TRUE, msg |-> m, content |-> <<>>]

Answers(c) == [exc |-> FALSE, msg |-> <<>>, content |-> c]

ScoringAnswers ==
    {Raises(m) : m \in ScoringExceptions} \cup {Answers(c) : c \in ScoringResponses}

\* the answers drawn during a run: one of each way an attempt can end
RunAnswers ==
    {Answers(GoodObject), Answers(NanObject), Answers(Unclosed), Answers(<<Prose>>),
     Raises(ExcRateLimit), Raises(ExcAuth)}

\* ScoreAttempt for every answer, attempt and jitter the model draws
AttemptTable ==
    [api \in ScoringAnswers |->
        [attempt \in 0..(MaxRetriesScoring - 1) |->
            [jitter \in 0..(JitterRes - 1) |-> ScoreAttempt(api, attempt, jitter)]]]

----------------------------------------------------------------------------
(* The pricing worker check_domain_availability and the reconciliation of  *)
(* process_domain_batch: their pure parts                                  *)

\* the program's constants
MAX_RETRIES == 3

RETRY_DELAY == 2

LongCooldown == 60

HighScorePricing == 7

\* the options of update_domain_prices the model runs with
BatchRetries == 1

MaxConsecutiveFailures == 2

BatchCooldown == 1

\* error_msg of a response whose status is not 200
StatusMessage(status) ==
    IF status = 429 THEN <<"R","a","t","e"," ","l","i","m","i","t"," ","e","x","c","e","e","d","e","d"," ","(","4","2","9",")">>
    ELSE IF status >= 500 THEN <<"S","e","r","v","e","r"," ","e","r","r","o","r"," ","(">> \o Str(status) \o <<")">>
         ELSE <<"A","P","I"," ","e","r","r","o","r",":"," ">> \o Str(status)

\* error_message of a response whose ApiResponse Status is not OK: the text
\* of its Error element, None when it has no such element
ApiErrorMessage(text) ==
    LET error_message == IF text = None THEN <<"U","n","k","n","o","w","n"," ","A","P","I"," ","e","r","r","o","r">> ELSE Get(text)
    IN  IF \/ Contains(Lower(error_message), <<"t","o","o"," ","m","a","n","y"," ","r","e","q","u","e","s","t","s">>)
           \/ Contains(Lower(error_message), <<"r","a","t","e"," ","l","i","m","i","t">>)
        THEN <<"R","a","t","e"," ","l","i","m","i","t",":"," ">> \o error_message
        ELSE error_message

\* the error type process_domain_batch files an error message under
ErrorTypeOf(error_msg) ==
    IF Contains(error_msg, <<"A","P","I"," ","e","r","r","o","r">>) \/ Contains(Lower(error_msg), <<"e","r","r","o","r">>)
    THEN IF \/ Contains(error_msg, <<"4","2","9">>)
            \/ Contains(Lower(error_msg), <<"r","a","t","e"," ","l","i","m","i","t">>)
            \/ Contains(Lower(error_msg), <<"t","o","o"," ","m","a","n","y"," ","r","e","q","u","e","s","t","s">>)
         THEN "Rate Limit"
         ELSE "API Error"
    ELSE IF Contains(error_msg, <<"X","M","L"," ","p","a","r","s","i","n","g">>) THEN "XML Error"
    ELSE IF Contains(error_msg, <<"N","e","t","w","o","r","k"," ","e","r","r","o","r">>) THEN "Network Error"
    ELSE IF Contains(error_msg, <<"T","i","m","e","o","u","t">>) THEN "Timeout"
    ELSE IF Contains(error_msg, <<"C","o","n","n","e","c","t","i","o","n">>) THEN "Connection Error"
    ELSE IF Contains(error_msg, <<"M","a","x","i","m","u","m"," ","r","e","t","r","i","e","s">>) THEN "Retry Error"
    ELSE "Unknown"

PricingErrorTypes ==
    {"Rate Limit", "API Error", "XML Error", "Network Error", "Timeout",
     "Connection Error", "Retry Error", "Unknown"}

\* get_standard_price_for_tld, in cents
GetStandardPriceForTld(tld) ==
    LET t == Lower(tld)
    IN  CASE t = <<"c","o","m">> -> 1098
          [] t = <<"n","e","t">> -> 1198
          [] t = <<"o","r","g">> -> 1198
          [] t = <<"i","o">> -> 3298
          [] t = <<"a","i">> -> 7998
          [] t = <<"c","o">> -> 2598
          [] t = <<"m","e">> -> 1998
          [] t = <<"u","s">> -> 998
          [] t = <<"t","o">> -> 3998
          [] t = <<"x","y","z">> -> 1298
          [] OTHER -> 1498

\* the dictionaries check_domain_availability returns
\* PriceError without its type
PriceErrorUntyped(domain, error_msg) ==
    [domain |-> domain, available |-> FALSE, error |-> Some(error_msg),
     price_type |-> "Taken", price |-> None]

PriceError(domain, error_msg) ==
    [domain |-> domain, available |-> FALSE, error |-> Some(error_msg),
     price_type |-> "Error", price |-> None]

PriceTaken(domain) ==
    [domain |-> domain, available |-> FALSE, error |-> None,
     price_type |-> "Taken", price |-> None]

PricePremium(domain, premium_price) ==
    [domain |-> domain, available |-> TRUE, error |-> None,
     price_type |-> "Premium", price |-> Some(premium_price)]

PriceStandard(domain, standard_price) ==
    [domain |-> domain, available |-> TRUE, error |-> None,
     price_type |-> "Standard", price |-> Some(standard_price)]

\* the price that stands for float('nan'), which float() returns for the
\* text "NaN" of a price attribute; no comparison with it is true
NanPrice == -1

\* a price as sqlite3 binds it: a NaN is stored as NULL
BindPrice(price) == IF price = Some(NanPrice) THEN None ELSE price

\* "if x" for a str or None
Truthy(o) == o # None /\ Get(o) # <<>>

\* update_domain_price_in_db: UPDATE domain_results SET ... WHERE domain = ?
\* changes the row of the domain, when there is one
\* UpdateDomainPriceInDb that writes the price fields of an error as well
UpdateDomainPriceInDbMarking(table, domain, price_info) ==
    LET pricing_data ==
            [domain |-> domain, available |-> price_info.available,
             price_type |-> price_info.price_type, price |-> price_info.price,
             error |-> price_info.error]
    IN  IF table[domain] = None THEN table
        ELSE [table EXCEPT ![domain] =
                  Some([Get(@) EXCEPT !.price = BindPrice(price_info.price),
                                      !.price_type = Some(price_info.price_type),
                                      !.error = price_info.error,
                                      !.pricing_data = Some(pricing_data)])]

UpdateDomainPriceInDb(table, domain, price_info) ==
    LET pricing_data ==
            [domain |-> domain, available |-> price_info.available,
             price_type |-> price_info.price_type, price |-> price_info.price,
             error |-> price_info.error]
    IN  IF table[domain] = None THEN table
        ELSE IF ~Truthy(price_info.error)
             THEN [table EXCEPT ![domain] =
                       Some([Get(@) EXCEPT !.price = BindPrice(price_info.price),
                                           !.price_type = Some(price_info.price_type),
                                           !.error = price_info.error,
                                           !.pricing_data = Some(pricing_data)])]
             ELSE [table EXCEPT ![domain] =
                       Some([Get(@) EXCEPT !.pricing_data = Some(pricing_data)])]

\* the column a row is ranked by, sort_field being "average_score" or the
\* name of a sub-score
SortValue(row, sort_field) ==
    IF sort_field = "average_score" THEN row.average_score
    ELSE IF sort_field = "memorability" THEN row.memorability
    ELSE IF sort_field = "pronunciation" THEN row.pronunciation
    ELSE IF sort_field = "visual_appeal" THEN row.visual_appeal
    ELSE row.brandability

\* the value of a ranking column as a fraction
AsFrac(sort_field, value) ==
    IF sort_field = "average_score" THEN value ELSE Frac(value, 1)

FracLess(f, g) == f.num * g.den < g.num * f.den

\* IsCandidate without the clause that skips the priced rows
IsCandidateUnfiltered(row, sort_field, include_taken, skip_priced) ==
    /\ SortValue(row, sort_field) # None
    /\ include_taken \/ row.price_type = None \/ Get(row.price_type) # "Taken"

\* the WHERE clause of get_domains_to_process
IsCandidate(row, sort_field, include_taken, skip_priced) ==
    /\ SortValue(row, sort_field) # None
    /\ include_taken \/ row.price_type = None \/ Get(row.price_type) # "Taken"
    /\ ~skip_priced \/ row.price_type = None \/ Get(row.price_type) = "Error"

\* the position of a domain in AllDomains stands for the rowid of its row
RowId(d) == CHOOSE i \in 1..Len(AllDomains) : AllDomains[i] = d

\* ORDER BY sort_field DESC: rows of equal rank come in the order of rowid
RECURSIVE OrderDesc(_, _, _)
OrderDesc(table, ds, sort_field) ==
    IF ds = {} THEN <<>>
    ELSE LET rank(d) == AsFrac(sort_field, Get(SortValue(Get(table[d]), sort_field)))
             top == CHOOSE d \in ds :
                       \A e \in ds \ {d} :
                           \/ FracLess(rank(e), rank(d))
                           \/ rank(e) = rank(d) /\ RowId(d) < RowId(e)
         IN  <<top>> \o OrderDesc(table, ds \ {top}, sort_field)

\* get_domains_to_process; quantity is None for no LIMIT
GetDomainsToProcess(table, quantity, sort_field, include_taken, skip_priced) ==
    LET ds == {d \in Domains :
                 /\ table[d] # None
                 /\ IsCandidate(Get(table[d]), sort_field, include_taken, skip_priced)}
        ordered == OrderDesc(table, ds, sort_field)
    IN  IF quantity # None /\ Get(quantity) > 0
        THEN SubSeq(ordered, 1, Min(Get(quantity), Len(ordered)))
        ELSE ordered

\* An answer to the request of check_domain_availability: an exception
\* raised by session.get ([exc] is "ClientError" or "Exception", [msg] its
\* str), or a response with its [status] and, parsed, its body: [wellformed],
\* the Status attribute ([api_ok]), the text of the Error element
\* ([error_text]), and of the DomainCheckResult element ([has_check]) the
\* attributes Available, IsPremiumName and PremiumRegistrationPrice in cents.
CheckAnswer ==
    [exc |-> "", msg |-> <<>>, status |-> 200, wellformed |-> TRUE, api_ok |-> TRUE,
     error_text |-> None, has_check |-> TRUE, available |-> FALSE, premium |-> FALSE,
     premium_price |-> 0]

HttpStatus(status) == [CheckAnswer EXCEPT !.status = status]

Malformed == [CheckAnswer EXCEPT !.wellformed = FALSE]

ApiError(text) == [CheckAnswer EXCEPT !.api_ok = FALSE, !.error_text = text]

NoCheckResult == [CheckAnswer EXCEPT !.has_check = FALSE]

IsTaken == CheckAnswer

IsPremium(cents) ==
    [CheckAnswer EXCEPT !.available = TRUE, !.premium = TRUE, !.premium_price = cents]

IsStandard == [CheckAnswer EXCEPT !.available = TRUE]

CheckRaises(class, msg) == [CheckAnswer EXCEPT !.exc = class, !.msg = msg]

TooManyRequests == <<"T","o","o"," ","m","a","n","y"," ","r","e","q","u","e","s","t","s">>

InvalidApiKey == <<"A","P","I"," ","K","e","y"," ","i","s"," ","i","n","v","a","l","i","d"," ","o","r"," ","A","P","I"," ","a","c","c","e","s","s"," ","h","a","s"," ","n","o","t"," ","b","e","e","n"," ","e","n","a","b","l","e","d">>

CannotConnect == <<"C","a","n","n","o","t"," ","c","o","n","n","e","c","t"," ","t","o"," ","h","o","s","t"," ","a","p","i",".","n","a","m","e","c","h","e","a","p",".","c","o","m",":","4","4","3">>

XmlSyntaxError == <<"s","y","n","t","a","x"," ","e","r","r","o","r",":"," ","l","i","n","e"," ","1",","," ","c","o","l","u","m","n"," ","0">>

CheckAnswers ==
    {HttpStatus(429), HttpStatus(500), HttpStatus(403), Malformed,
     ApiError(Some(TooManyRequests)), ApiError(Some(InvalidApiKey)), ApiError(None),
     NoCheckResult, IsTaken, IsPremium(12000), IsStandard,
     CheckRaises("ClientError", CannotConnect), CheckRaises("Exception", <<>>)}

\* the rate-limit signals among the answers: the status 429, and an error
\* of the API with the wording of a rate limit
RateLimitSignal(answer) ==
    /\ answer.exc = ""
    /\ \/ answer.status = 429
       \/ /\ answer.status = 200 /\ answer.wellformed /\ ~answer.api_ok
          /\ answer.error_text # None
          /\ \/ Contains(Lower(Get(answer.error_text)), <<"t","o","o"," ","m","a","n","y"," ","r","e","q","u","e","s","t","s">>)
             \/ Contains(Lower(Get(answer.error_text)), <<"r","a","t","e"," ","l","i","m","i","t">>)

RateLimitSignals == {answer \in CheckAnswers : RateLimitSignal(answer)}

\* the authentication failures among the answers: the statuses 401 and 403,
\* and the error the API gives for a key it does not accept
AuthSignal(answer) ==
    /\ answer.exc = ""
    /\ \/ answer.status \in {401, 403}
       \/ /\ answer.status = 200 /\ answer.wellformed /\ ~answer.api_ok
          /\ answer.error_text = Some(InvalidApiKey)

AuthSignals == {answer \in CheckAnswers : AuthSignal(answer)}

\* the body of the answer is not XML: ET.fromstring raises ParseError
MalformedBody(answer) == answer.exc = "" /\ answer.status = 200 /\ ~answer.wellformed

\* the answers drawn during a run
CheckRunAnswers ==
    {HttpStatus(429), ApiError(Some(TooManyRequests)), IsTaken, IsPremium(12000),
     IsStandard}

\* error_msg of the handler "except aiohttp.ClientError as e"
ClientErrorMessage(msg) ==
    IF Contains(msg, <<"T","i","m","e","o","u","t","E","r","r","o","r">>) THEN <<"T","i","m","e","o","u","t"," ","e","r","r","o","r",":"," ">> \o msg
    ELSE IF Contains(msg, <<"C","o","n","n","e","c","t","E","r","r","o","r">>) THEN <<"C","o","n","n","e","c","t","i","o","n"," ","e","r","r","o","r",":"," ">> \o msg
         ELSE <<"N","e","t","w","o","r","k"," ","e","r","r","o","r",":"," ">> \o msg

\* the retry every transient branch of check_domain_availability makes while
\* attempts are left, and the error it returns after the last one
RetryOrFail(error_msg, attempt, jitter) ==
    IF attempt < MAX_RETRIES - 1
    THEN [kind |-> "retry", error_msg |-> error_msg, price |-> 0,
          delay |-> BackoffDelay(RETRY_DELAY, attempt, jitter)]
    ELSE [kind |-> "error", error_msg |-> error_msg, price |-> 0, delay |-> 0]

Ends(kind, error_msg, price) ==
    [kind |-> kind, error_msg |-> error_msg, price |-> price, delay |-> 0]

\* one pass of the loop of check_domain_availability for an answer: [kind]
\* is "retry" (sleep [delay], then the next attempt), "error" (return the
\* error [error_msg]), "taken", "premium" (return [price]) or "standard" (go
\* on to get_tld_price)
CheckAttempt(answer, attempt, jitter) ==
    IF answer.exc = "ClientError"
    THEN RetryOrFail(ClientErrorMessage(answer.msg), attempt, jitter)
    ELSE IF answer.exc = "Exception"
    THEN RetryOrFail(<<"U","n","e","x","p","e","c","t","e","d"," ","e","r","r","o","r",":"," ">> \o answer.msg, attempt, jitter)
    ELSE IF answer.status # 200
    THEN RetryOrFail(StatusMessage(answer.status), attempt, jitter)
    ELSE IF ~answer.wellformed
    THEN RetryOrFail(<<"X","M","L"," ","p","a","r","s","i","n","g"," ","e","r","r","o","r",":"," ">> \o XmlSyntaxError, attempt, jitter)
    ELSE IF ~answer.api_ok
    THEN Ends("error", ApiErrorMessage(answer.error_text), 0)
    ELSE IF ~answer.has_check
    THEN Ends("error", <<"N","o"," ","D","o","m","a","i","n","C","h","e","c","k","R","e","s","u","l","t"," ","f","o","u","n","d"," ","i","n"," ","A","P","I"," ","r","e","s","p","o","n","s","e">>, 0)
    ELSE IF ~answer.available
    THEN Ends("taken", <<>>, 0)
    ELSE IF answer.premium
    THEN Ends("premium", <<>>, answer.premium_price)
    ELSE Ends("standard", <<>>, 0)

\* CheckAttempt for every answer, attempt and jitter the model draws
CheckTable ==
    [answer \in CheckAnswers \cup {IsPremium(NanPrice)} |->
        [attempt \in 0..(MAX_RETRIES - 1) |->
            [jitter \in 0..(JitterRes - 1) |-> CheckAttempt(answer, attempt, jitter)]]]

\* An answer to the request of get_tld_price: the price of the TLD in cents,
\* or None for every answer the function falls back on the static table for
TldAnswers == {Some(3498), None}

\* the price get_tld_price stores in the cache and returns for an answer
TldPrice(tld, tanswer) ==
    IF tanswer # None THEN Get(tanswer) ELSE GetStandardPriceForTld(tld)

Tlds == {TldOf(d) : d \in Domains}

\* the statistics process_domain_batch returns
EmptyResults ==
    [success |-> 0, errors |-> 0, error_types |-> [t \in PricingErrorTypes |-> 0],
     taken |-> 0, premium |-> 0, standard |-> 0, filtered_premium |-> 0,
     high_scores |-> <<>>, error_domains |-> <<>>, success_domains |-> <<>>]

\* the error messages check_domain_availability returns for the answers
ErrorMessages ==
    {CheckAttempt(answer, MAX_RETRIES - 1, 0).error_msg :
        answer \in {a \in CheckAnswers : CheckAttempt(a, MAX_RETRIES - 1, 0).kind = "error"}}

\* ErrorTypeOf for each of them
ErrorTypeTable == [error_msg \in ErrorMessages |-> ErrorTypeOf(error_msg)]

\* TldOf for each domain
TldTable == [d \in Domains |-> TldOf(d)]

\* the body of the loop "for result in batch_results" of process_domain_batch
\* for one result: acc is [results, table]; max_price is None when not set
\* ReconcileOne that counts an outcome as a success only
ReconcileOneUntyped(acc, result, max_price) ==
    [results |-> [acc.results EXCEPT !.success = @ + 1,
                                     !.success_domains = Append(@, result.domain)],
     table |-> UpdateDomainPriceInDb(acc.table, result.domain, result)]

ReconcileOne(acc, result, max_price) ==
    LET results == acc.results
        domain == result.domain
    IN  IF Truthy(result.error)
        THEN LET error_type == ErrorTypeTable[Get(result.error)]
             IN  [results |->
                     [results EXCEPT
                        !.errors = @ + 1,
                        !.error_domains = Append(@, domain),
                        !.error_types[error_type] = @ + 1],
                  table |-> UpdateDomainPriceInDb(acc.table, domain, result)]
        ELSE LET filtered == /\ result.available
                             /\ result.price_type = "Premium"
                             /\ max_price # None
                             /\ Get(max_price) # 0
                             /\ Get(result.price) > Get(max_price)
                 final == IF filtered
                          THEN [result EXCEPT !.price_type = "Filtered"] ELSE result
                 row == acc.table[domain]
                 score == IF row = None THEN None ELSE Get(row).average_score
                 notable == /\ score # None
                            /\ Get(score).num # 0
                            /\ FracGeq(Get(score), HighScorePricing)
                            /\ final.available
                            /\ final.price_type # "Filtered"
             IN  [results |->
                     [results EXCEPT
                        !.taken = IF ~result.available THEN @ + 1 ELSE @,
                        !.premium = IF result.available /\ result.price_type = "Premium"
                                    THEN @ + 1 ELSE @,
                        !.filtered_premium = IF filtered THEN @ + 1 ELSE @,
                        !.standard = IF result.available /\ result.price_type = "Standard"
                                     THEN @ + 1 ELSE @,
                        !.success = @ + 1,
                        !.success_domains = Append(@, domain),
                        !.high_scores =
                            IF notable
                            THEN Append(@, <<domain, Get(score), final.price_type,
                                             final.price>>)
                            ELSE @],
                  table |-> UpdateDomainPriceInDb(acc.table, domain, final)]

\* the whole loop, over the results in the order of the batch
RECURSIVE Reconcile(_, _, _)
Reconcile(acc, batch_results, max_price) ==
    IF batch_results = <<>> THEN acc
    ELSE Reconcile(ReconcileOne(acc, Head(batch_results), max_price),
                   Tail(batch_results), max_price)

\* "if batch_results['success'] >= len(batch) / 2": at least half of the
\* batch was processed without an error
\* BatchSuccess for which one success is enough
BatchSuccessAny(results, batch) == results.success >= 1

BatchSuccess(results, batch) == results.success * 2 >= Len(batch)

\* all_results after the statistics of a batch are added to it
AddResults(all, results) ==
    [all EXCEPT
        !.success = @ + results.success,
        !.errors = @ + results.errors,
        !.taken = @ + results.taken,
        !.premium = @ + results.premium,
        !.standard = @ + results.standard,
        !.filtered_premium = @ + results.filtered_premium,
        !.high_scores = @ \o results.high_scores,
        !.error_domains = @ \o results.error_domains,
        !.success_domains = @ \o results.success_domains,
        !.error_types = [t \in PricingErrorTypes |-> @[t] + results.error_types[t]]]

\* the arguments of update_domain_prices the runs are started with unless
\* said otherwise
Quantity == None

SortField == "average_score"

IncludeTaken == FALSE

SkipPriced == TRUE

MaxPrice == None

MaxErrors == None

DefaultOptions ==
    [quantity |-> Quantity, sort_field |-> SortField, include_taken |-> IncludeTaken,
     skip_priced |-> SkipPriced, max_price |-> MaxPrice, max_errors |-> MaxErrors,
     max_consecutive_failures |-> MaxConsecutiveFailures,
     batch_retries |-> BatchRetries, batch_cooldown |-> BatchCooldown]

\* max_consecutive_failures as the command line sets it
DefaultMaxFailures == 3

\* the ceiling of a premium price of the runs with --max-price, in cents
PriceCeiling == 10000

\* the ranking fields update_domain_prices accepts
ValidFields ==
    {"average_score", "memorability", "pronunciation", "visual_appeal", "brandability"}

\* the ranking field of a run: a field that is not valid is replaced
ValidSortField(sort_field) ==
    IF sort_field \in ValidFields THEN sort_field ELSE "average_score"

----------------------------------------------------------------------------
(* State *)

VARIABLES
    store,               \* the domain_results table
    stage,               \* the stage that is running: "none", "scoring", "pricing"
    run,                 \* the number of runs started
    csv,                 \* the domains of the file of available domains
    batch_size,          \* the size of a batch
    options,             \* the arguments of update_domain_prices
    s_pc,                \* where main of the scoring stage is
    processed_domains,   \* main's set of the same name
    domains_to_score,    \* main's list of the same name
    batch_start,         \* main's loop variable i
    concurrency,         \* main's concurrency
    semaphore,           \* the free slots of main's asyncio.Semaphore
    batch_counter,       \* main's batch_counter
    totals,              \* main's total_success, total_errors, total_rate_limits
    high_scores,         \* main's high_scores
    error_counts,        \* the global error_counts
    shutdown_requested,  \* the global shutdown_requested
    workers,             \* the ai_score coroutines of the batch
    p_pc,                \* where update_domain_prices is
    domains,             \* its list of the same name
    p_start,             \* its loop variable i
    p_attempt,           \* its loop variable attempt
    consecutive_errors,  \* its variable of the same name
    current_delay,       \* its variable of the same name
    all_results,         \* its dictionary of the same name
    batch_results,       \* what process_domain_batch returned last
    tld_price_cache,     \* the global tld_price_cache
    tld_lookups,         \* the getPricing requests sent in this run, by TLD
    p_workers,           \* the check_domain_availability coroutines of the batch
    c_pc,                \* where main of check_domains.py is
    c_start,             \* its loop variable i
    c_results,           \* its list results
    available_domains,   \* the global available_domains
    checks,              \* the check coroutines of the chunk
    availability_csv     \* the file domain_availability.csv: its rows, None
                         \* while there is no file

scoringVars ==
    <<s_pc, processed_domains, domains_to_score, batch_start, concurrency, semaphore,
      batch_counter, totals, high_scores, error_counts, shutdown_requested, workers>>

pricingVars ==
    <<p_pc, domains, p_start, p_attempt, consecutive_errors, current_delay,
      all_results, batch_results, tld_price_cache, tld_lookups, p_workers>>

checkVars ==
    <<c_pc, c_start, c_results, available_domains, checks, availability_csv>>

inputVars == <<csv, batch_size, options>>

vars == <<store, stage, run, inputVars, scoringVars, pricingVars, checkVars>>

Slots == 1..MaxBatchSize

\* a coroutine of a batch: where it is, its domain, its loop variable
\* attempt, the delays it has slept, how many of the answers it got were
\* rate-limit signals and how many authentication failures, and whether it
\* has written its result; for a pricing worker, how many had a body that is
\* not XML, and its result
NoWorker ==
    [pc |-> "idle", domain |-> <<>>, attempt |-> 0, waits |-> <<>>, rate_limited |-> 0,
     auth_failures |-> 0, wrote |-> FALSE]

EmptyBatchCounter == [success |-> 0, errors |-> 0, rate_limits |-> 0, high_scores |-> {}]

\* domains_to_score[i:i+batch_size]
ScoringBatch(list, i) == SubSeq(list, i + 1, Min(i + batch_size, Len(list)))

\* the coroutines asyncio.gather starts for a batch: each runs up to its
\* first suspension, which is the semaphore, unless the domain already has a
\* score and it returns None at once
StartWorkers(table, batch) ==
    [k \in Slots |->
        IF k > Len(batch) THEN NoWorker
        ELSE [NoWorker EXCEPT
                !.domain = batch[k],
                !.pc = IF DomainAlreadyProcessed(table, batch[k])
                       THEN "returned" ELSE "waiting"]]

\* the workers that hold a slot of the semaphore
HoldsSlot(w) == w.pc \in {"calling", "sleeping"}

InFlight == Cardinality({k \in Slots : HoldsSlot(workers[k])})

InitialConcurrencies == (1..MaxSmallConcurrency) \cup {DefaultConcurrency}

ScoringIdle ==
    /\ s_pc = "idle"
    /\ processed_domains = {}
    /\ domains_to_score = <<>>
    /\ batch_start = 0
    /\ concurrency = DefaultConcurrency
    /\ semaphore = DefaultConcurrency
    /\ batch_counter = EmptyBatchCounter
    /\ totals = [success |-> 0, errors |-> 0, rate_limits |-> 0]
    /\ high_scores = {}
    /\ error_counts = [t \in ScoringErrorTypes |-> 0]
    /\ shutdown_requested = FALSE
    /\ workers = [k \in Slots |-> NoWorker]

NoPricer ==
    [pc |-> "idle", domain |-> <<>>, attempt |-> 0, waits |-> <<>>, rate_limited |-> 0,
     auth_failures |-> 0, malformed |-> 0, result |-> None]

PricingIdle ==
    /\ p_pc = "idle"
    /\ domains = <<>>
    /\ p_start = 0
    /\ p_attempt = 0
    /\ consecutive_errors = 0
    /\ current_delay = BatchCooldown
    /\ all_results = EmptyResults
    /\ batch_results = EmptyResults
    /\ tld_price_cache = [t \in Tlds |-> None]
    /\ tld_lookups = [t \in Tlds |-> 0]
    /\ p_workers = [k \in Slots |-> NoPricer]

\* a coroutine of a chunk: where it is, its domain, and the row it returns
NoCheck == [pc |-> "idle", domain |-> <<>>, status |-> ""]

\* a row of the file, without its columns short_word and tld
Row(domain, status) == [domain |-> domain, status |-> status]

\* the file a run of the availability stage wrote that found every domain
\* of a list available
FileOf(list) ==
    IF list = <<>> THEN None
    ELSE Some([i \in 1..Len(list) |-> Row(list[i], "Available")])

\* available_df['domain']: the domains of the rows with the status Available
RECURSIVE AvailableRows(_)
AvailableRows(rows) ==
    IF rows = <<>> THEN <<>>
    ELSE IF Head(rows).status = "Available"
         THEN <<Head(rows).domain>> \o AvailableRows(Tail(rows))
         ELSE AvailableRows(Tail(rows))

CheckingIdle ==
    /\ c_pc = "idle"
    /\ c_start = 0
    /\ c_results = <<>>
    /\ available_domains = <<>>
    /\ checks = [k \in Slots |-> NoCheck]

\* the table after the scoring stage has given each domain of a list its scores
ScoredTable(list) ==
    LET good == ScoreAttempt(Answers(GoodObject), 0, 0).result
    IN  [d \in Domains |->
            IF \E i \in 1..Len(list) : list[i] = d
            THEN InsertResult(EmptyTable, d, good)[d]
            ELSE None]

\* a table earlier runs have filled in part: the first domain of the list
\* has its scores and its price, the second its scores, the others no row
PartTable(list) ==
    LET first == list[1]
        scored == ScoredTable(SubSeq(list, 1, 2))
    IN  UpdateDomainPriceInDb(scored, first,
                              PriceStandard(first, GetStandardPriceForTld(TldOf(first))))

\* a process starts with a file of available domains, a batch size and a table
InitWithOptions(list, size, tables, opts) ==
    /\ csv = list
    /\ availability_csv = FileOf(list)
    /\ batch_size = size
    /\ options \in opts
    /\ store \in tables
    /\ stage = "none"
    /\ run = 0
    /\ ScoringIdle
    /\ PricingIdle
    /\ CheckingIdle

\* with the default arguments
InitWith(list, size, tables) == InitWithOptions(list, size, tables, {DefaultOptions})

Init ==
    InitWith(AvailableDomains, BatchSize,
             {EmptyTable, ScoredTable(AvailableDomains), PartTable(AvailableDomains)})

\* two domains, in batches of one
InitWorker ==
    LET list == SubSeq(AvailableDomains, 1, 2)
    IN  InitWith(list, 1, {EmptyTable, ScoredTable(list)})

\* the table after a scoring run whose responses were the object asked for,
\* an object with one key, and an object with a fifth key
MixedTable(list) ==
    LET row(d, content) ==
            InsertResult(EmptyTable, d, ScoreAttempt(Answers(content), 0, 0).result)[d]
    IN  [d \in Domains |->
            IF d = list[1] THEN row(d, GoodObject)
            ELSE IF d = list[2] THEN row(d, OneKey)
            ELSE IF d = list[3] THEN row(d, FiveKeys)
            ELSE None]

\* the arguments of the runs with a ranking field and a quantity, with a
\* ceiling for premium prices, with a limit of the errors, and with the
\* command line's max_consecutive_failures
RankingOptions ==
    {[DefaultOptions EXCEPT !.sort_field = f, !.quantity = q] :
        f \in ValidFields, q \in {None, Some(1), Some(2)}}

OptionSets ==
    RankingOptions
    \cup {[DefaultOptions EXCEPT !.max_price = Some(PriceCeiling)]}
    \cup {[DefaultOptions EXCEPT !.max_errors = Some(n)] : n \in 1..2}
    \cup {[DefaultOptions EXCEPT !.max_consecutive_failures = DefaultMaxFailures]}
    \cup {[DefaultOptions EXCEPT !.include_taken = TRUE],
          [DefaultOptions EXCEPT !.include_taken = TRUE, !.skip_priced = FALSE]}

\* the domains one by one, with any of these arguments
InitOptions ==
    InitWithOptions(AvailableDomains, 1,
                    {ScoredTable(AvailableDomains), MixedTable(AvailableDomains)},
                    OptionSets)

\* the most retries of a batch the runs are given
MaxBatchRetries == 2

\* the arguments of the runs with no retry of a batch, with one, and with
\* the two of the command line
RetryOptions == {[DefaultOptions EXCEPT !.batch_retries = r] : r \in 0..MaxBatchRetries}

\* one batch of all the domains, which have their scores
InitRetry ==
    InitWithOptions(AvailableDomains, Len(AvailableDomains),
                    {ScoredTable(AvailableDomains)}, RetryOptions)

----------------------------------------------------------------------------
(* The scoring stage: main of ai_score_domains.py and its workers *)

\* AdjustConcurrency without its floor and its ceiling
AdjustConcurrencyUnbounded(c, counter) ==
    LET processed == counter.success + counter.errors
    IN  IF counter.rate_limits > RateLimitThreshold
        THEN c - ConcurrencyDecrease
        ELSE IF counter.rate_limits = 0 /\ processed > 0
             THEN c + ConcurrencyIncrease
             ELSE c

\* the adjustment of the concurrency after a batch
AdjustConcurrency(c, counter) ==
    LET processed == counter.success + counter.errors
    IN  IF counter.rate_limits > RateLimitThreshold
        THEN Max(MinConcurrency, c - ConcurrencyDecrease)
        ELSE IF counter.rate_limits = 0 /\ processed > 0 /\ c < MaxConcurrency
             THEN Min(MaxConcurrency, c + ConcurrencyIncrease)
             ELSE c

\* main up to the test call of the API: the global counts are reset and the
\* domains without a score are listed; with none left main returns
StartScoring ==
    /\ stage = "none"
    /\ p_pc = "idle"
    /\ run < MaxRuns
    /\ run' = run + 1
    /\ error_counts' = [t \in ScoringErrorTypes |-> 0]
    /\ shutdown_requested' = FALSE
    /\ processed_domains' = GetAllProcessedDomains(store)
    /\ domains_to_score' = DomainsToScore(store, csv)
    /\ batch_start' = 0
    /\ concurrency' = DefaultConcurrency
    /\ semaphore' = DefaultConcurrency
    /\ batch_counter' = EmptyBatchCounter
    /\ totals' = [success |-> 0, errors |-> 0, rate_limits |-> 0]
    /\ high_scores' = {}
    /\ workers' = [k \in Slots |-> NoWorker]
    /\ IF domains_to_score' = <<>>
       THEN s_pc' = "done" /\ stage' = "none"
       ELSE s_pc' = "apitest" /\ stage' = "scoring"
    /\ UNCHANGED <<store, inputVars>>
    /\ UNCHANGED <<pricingVars, checkVars>>

\* the test call returns.  When it failed and the user does not confirm,
\* main returns; otherwise the semaphore is made, of size c0, and the first
\* batch is handed to asyncio.gather
ApiTestDone(proceed, c0) ==
    /\ stage = "scoring"
    /\ s_pc = "apitest"
    /\ IF proceed
       THEN /\ s_pc' = "gather"
            /\ concurrency' = c0
            /\ semaphore' = c0
            /\ workers' = StartWorkers(store, ScoringBatch(domains_to_score, 0))
            /\ UNCHANGED stage
       ELSE /\ s_pc' = "done"
            /\ stage' = "none"
            /\ UNCHANGED <<concurrency, semaphore, workers>>
    /\ UNCHANGED <<store, run, inputVars, processed_domains, domains_to_score,
                   batch_start, batch_counter, totals,
                   high_scores, error_counts, shutdown_requested>>
    /\ UNCHANGED <<pricingVars, checkVars>>

\* AcquireSlot with a semaphore that never blocks
AcquireSlotUnbounded(k) ==
    /\ stage = "scoring"
    /\ s_pc = "gather"
    /\ workers[k].pc = "waiting"
    /\ semaphore' = semaphore - 1
    /\ workers' = [workers EXCEPT ![k].pc = "calling"]
    /\ UNCHANGED <<store, stage, run, inputVars, s_pc, processed_domains,
                   domains_to_score, batch_start,
                   concurrency, batch_counter, totals, high_scores, error_counts,
                   shutdown_requested>>
    /\ UNCHANGED <<pricingVars, checkVars>>

\* "async with semaphore": the coroutine that waits longest gets a free slot
\* and sends its first request
AcquireSlot(k) ==
    /\ stage = "scoring"
    /\ s_pc = "gather"
    /\ workers[k].pc = "waiting"
    /\ \A j \in 1..(k - 1) : workers[j].pc # "waiting"
    /\ semaphore > 0
    /\ semaphore' = semaphore - 1
    /\ workers' = [workers EXCEPT ![k].pc = "calling"]
    /\ UNCHANGED <<store, stage, run, inputVars, s_pc, processed_domains,
                   domains_to_score, batch_start, concurrency,
                   batch_counter, totals, high_scores, error_counts, shutdown_requested>>
    /\ UNCHANGED <<pricingVars, checkVars>>

\* the API answers the request of worker k: the attempt either goes to sleep
\* before the next one, or writes its result, leaves the semaphore and returns
CallReturns(k, api, jitter) ==
    /\ stage = "scoring"
    /\ s_pc = "gather"
    /\ workers[k].pc = "calling"
    /\ LET w == workers[k]
           out == AttemptTable[api][w.attempt][jitter]
           auth == IF AuthFailure(api) THEN 1 ELSE 0
       IN  IF out.retry
           THEN /\ workers' = [workers EXCEPT ![k].pc = "sleeping",
                                              ![k].waits = Append(@, out.delay),
                                              ![k].rate_limited = @ + out.rate_limits,
                                              ![k].auth_failures = @ + auth]
                /\ batch_counter' =
                       [batch_counter EXCEPT !.rate_limits = @ + out.rate_limits]
                /\ UNCHANGED <<store, semaphore, error_counts>>
           ELSE /\ workers' = [workers EXCEPT ![k].pc = "returned", ![k].wrote = TRUE,
                                              ![k].rate_limited = @ + out.rate_limits,
                                              ![k].auth_failures = @ + auth]
                /\ store' = InsertResult(store, w.domain, out.result)
                /\ semaphore' = semaphore + 1
                /\ batch_counter' =
                       [success |-> batch_counter.success + out.success,
                        errors |-> batch_counter.errors + out.errors,
                        rate_limits |-> batch_counter.rate_limits + out.rate_limits,
                        high_scores |->
                            batch_counter.high_scores
                            \cup (IF out.high
                                  THEN {<<w.domain, Get(out.result.average_score)>>}
                                  ELSE {})]
                /\ error_counts' =
                       [t \in ScoringErrorTypes |->
                           error_counts[t]
                           + Cardinality({i \in 1..Len(out.counted) : out.counted[i] = t})]
    /\ UNCHANGED <<stage, run, inputVars, s_pc, processed_domains, domains_to_score,
                   batch_start, concurrency,
                   totals, high_scores, shutdown_requested>>
    /\ UNCHANGED <<pricingVars, checkVars>>

\* asyncio.sleep(delay) is over: the next attempt sends its request
WakeUp(k) ==
    /\ stage = "scoring"
    /\ s_pc = "gather"
    /\ workers[k].pc = "sleeping"
    /\ workers' = [workers EXCEPT ![k].pc = "calling", ![k].attempt = @ + 1]
    /\ UNCHANGED <<store, stage, run, inputVars, s_pc, processed_domains,
                   domains_to_score, batch_start, concurrency,
                   semaphore, batch_counter, totals, high_scores, error_counts,
                   shutdown_requested>>
    /\ UNCHANGED <<pricingVars, checkVars>>

\* asyncio.gather returns: main adds the batch to its totals, adjusts the
\* concurrency, and then stops on a shutdown request, sleeps before the next
\* batch, or leaves the loop after the last one
GatherDone ==
    /\ stage = "scoring"
    /\ s_pc = "gather"
    /\ \A k \in Slots : workers[k].pc \in {"idle", "returned"}
    /\ totals' = [success |-> totals.success + batch_counter.success,
                  errors |-> totals.errors + batch_counter.errors,
                  rate_limits |-> totals.rate_limits + batch_counter.rate_limits]
    /\ high_scores' = high_scores \cup batch_counter.high_scores
    /\ concurrency' = AdjustConcurrency(concurrency, batch_counter)
    /\ semaphore' = IF concurrency' # concurrency THEN concurrency' ELSE semaphore
    /\ IF shutdown_requested
       THEN s_pc' = "done" /\ stage' = "none"
       ELSE IF batch_start + batch_size < Len(domains_to_score)
            THEN s_pc' = "pause" /\ UNCHANGED stage
            ELSE s_pc' = "done" /\ stage' = "none"
    /\ UNCHANGED <<store, run, inputVars, processed_domains, domains_to_score,
                   batch_start, batch_counter,
                   error_counts, shutdown_requested, workers>>
    /\ UNCHANGED <<pricingVars, checkVars>>

\* asyncio.sleep(1) between two batches is over: the next batch is handed to
\* asyncio.gather
PauseDone ==
    /\ stage = "scoring"
    /\ s_pc = "pause"
    /\ s_pc' = "gather"
    /\ batch_start' = batch_start + batch_size
    /\ batch_counter' = EmptyBatchCounter
    /\ workers' = StartWorkers(store, ScoringBatch(domains_to_score, batch_start'))
    /\ UNCHANGED <<store, stage, run, inputVars, processed_domains, domains_to_score,
                   concurrency, semaphore, totals,
                   high_scores, error_counts, shutdown_requested>>
    /\ UNCHANGED <<pricingVars, checkVars>>

\* signal_handler: SIGINT or SIGTERM arrives while main is suspended
ShutdownSignal ==
    /\ stage = "scoring"
    /\ s_pc \in {"apitest", "gather", "pause"}
    /\ ~shutdown_requested
    /\ shutdown_requested' = TRUE
    /\ UNCHANGED <<store, stage, run, inputVars, s_pc, processed_domains,
                   domains_to_score, batch_start, concurrency,
                   semaphore, batch_counter, totals, high_scores, error_counts, workers>>
    /\ UNCHANGED <<pricingVars, checkVars>>

----------------------------------------------------------------------------
(* The pricing stage: update_domain_prices of domain_pricing.py, its       *)
(* batches and its workers                                                 *)

\* domains[i:i+batch_size]
PricingBatch(list, i) == SubSeq(list, i + 1, Min(i + batch_size, Len(list)))

\* the coroutines asyncio.gather starts in process_domain_batch: there is
\* no semaphore, each runs up to its first suspension, which is its request
StartPricers(batch) ==
    [k \in Slots |->
        IF k > Len(batch) THEN NoPricer
        ELSE [NoPricer EXCEPT !.domain = batch[k], !.pc = "calling"]]

\* a check_domain_availability coroutine between its first request and its return
PricerInFlight(w) == w.pc \in {"calling", "sleeping", "pricing"}

PricingInFlight == Cardinality({k \in Slots : PricerInFlight(p_workers[k])})

\* update_domain_prices up to its first suspension: the candidates are
\* selected and the first batch is handed to process_domain_batch
StartPricing ==
    /\ stage = "none"
    /\ s_pc = "idle"
    /\ run < MaxRuns
    /\ run' = run + 1
    /\ domains' = GetDomainsToProcess(store, options.quantity,
                                       ValidSortField(options.sort_field),
                                       options.include_taken, options.skip_priced)
    /\ p_start' = 0
    /\ p_attempt' = 0
    /\ consecutive_errors' = 0
    /\ current_delay' = options.batch_cooldown
    /\ all_results' = EmptyResults
    /\ batch_results' = EmptyResults
    /\ tld_price_cache' = [t \in Tlds |-> None]
    /\ tld_lookups' = [t \in Tlds |-> 0]
    /\ IF domains' = <<>>
       THEN p_pc' = "done" /\ stage' = "none"
            /\ p_workers' = [k \in Slots |-> NoPricer]
       ELSE p_pc' = "gather" /\ stage' = "pricing"
            /\ p_workers' = StartPricers(PricingBatch(domains', 0))
    /\ UNCHANGED <<store, inputVars>>
    /\ UNCHANGED <<scoringVars, checkVars>>

\* the answer to the request of worker k arrives: the worker sleeps before
\* its next attempt, returns a result, or, for an available domain that is
\* not premium, goes on to get_tld_price, which returns the cached price or
\* sends a getPricing request
CheckReturns(k, answer, jitter) ==
    /\ stage = "pricing"
    /\ p_pc = "gather"
    /\ p_workers[k].pc = "calling"
    /\ LET w == p_workers[k]
           out == CheckTable[answer][w.attempt][jitter]
           tld == TldTable[w.domain]
           signal == IF answer \in RateLimitSignals THEN 1 ELSE 0
           auth == IF answer \in AuthSignals THEN 1 ELSE 0
           unparsed == IF MalformedBody(answer) THEN 1 ELSE 0
           returns(result) ==
               /\ p_workers' = [p_workers EXCEPT ![k].pc = "returned",
                                                 ![k].rate_limited = @ + signal,
                                                 ![k].auth_failures = @ + auth,
                                                 ![k].malformed = @ + unparsed,
                                                 ![k].result = Some(result)]
               /\ UNCHANGED tld_lookups
       IN  CASE out.kind = "retry" ->
                   /\ p_workers' = [p_workers EXCEPT ![k].pc = "sleeping",
                                                     ![k].rate_limited = @ + signal,
                                                     ![k].auth_failures = @ + auth,
                                                     ![k].malformed = @ + unparsed,
                                                     ![k].waits = Append(@, out.delay)]
                   /\ UNCHANGED tld_lookups
             [] out.kind = "error" -> returns(PriceError(w.domain, out.error_msg))
             [] out.kind = "taken" -> returns(PriceTaken(w.domain))
             [] out.kind = "premium" -> returns(PricePremium(w.domain, out.price))
             [] out.kind = "standard" ->
                   IF tld_price_cache[tld] # None
                   THEN returns(PriceStandard(w.domain, Get(tld_price_cache[tld])))
                   ELSE /\ p_workers' = [p_workers EXCEPT ![k].pc = "pricing"]
                        /\ tld_lookups' = [tld_lookups EXCEPT ![tld] = @ + 1]
    /\ UNCHANGED <<store, stage, run, inputVars, p_pc, domains, p_start, p_attempt,
                   consecutive_errors, current_delay, all_results, batch_results,
                   tld_price_cache>>
    /\ UNCHANGED <<scoringVars, checkVars>>

\* the answer to the getPricing request of worker k arrives: the price goes
\* into the cache and the worker returns it
TldPriceReturns(k, tanswer) ==
    /\ stage = "pricing"
    /\ p_pc = "gather"
    /\ p_workers[k].pc = "pricing"
    /\ LET w == p_workers[k]
           tld == TldTable[w.domain]
           price == TldPrice(tld, tanswer)
       IN  /\ tld_price_cache' = [tld_price_cache EXCEPT ![tld] = Some(price)]
           /\ p_workers' = [p_workers EXCEPT
                               ![k].pc = "returned",
                               ![k].result = Some(PriceStandard(w.domain, price))]
    /\ UNCHANGED <<store, stage, run, inputVars, p_pc, domains, p_start, p_attempt,
                   consecutive_errors, current_delay, all_results, batch_results,
                   tld_lookups>>
    /\ UNCHANGED <<scoringVars, checkVars>>

\* asyncio.sleep(delay) of worker k is over: its next attempt sends its request
PricerWakeUp(k) ==
    /\ stage = "pricing"
    /\ p_pc = "gather"
    /\ p_workers[k].pc = "sleeping"
    /\ p_workers' = [p_workers EXCEPT ![k].pc = "calling", ![k].attempt = @ + 1]
    /\ UNCHANGED <<store, stage, run, inputVars, p_pc, domains, p_start, p_attempt,
                   consecutive_errors, current_delay, all_results, batch_results,
                   tld_price_cache, tld_lookups>>
    /\ UNCHANGED <<scoringVars, checkVars>>


\* the results of the coroutines, in the order of the batch
GatheredResults == [k \in 1..Len(PricingBatch(domains, p_start)) |-> Get(p_workers[k].result)]

\* EndOfIteration without the error threshold
EndOfIterationUncapped(all) ==
    IF p_start + batch_size < Len(domains)
    THEN p_pc' = "pause" /\ UNCHANGED stage
    ELSE p_pc' = "done" /\ stage' = "none"

\* the end of an iteration of the loop over the batches: the run stops at
\* the error threshold or after the last batch, and sleeps before the next one
EndOfIteration(all) ==
    IF /\ options.max_errors # None
       /\ Get(options.max_errors) # 0
       /\ all.errors >= Get(options.max_errors)
    THEN p_pc' = "done" /\ stage' = "none"
    ELSE IF p_start + batch_size < Len(domains)
         THEN p_pc' = "pause" /\ UNCHANGED stage
         ELSE p_pc' = "done" /\ stage' = "none"

\* ConsecutiveErrors that counts every batch as a failing one
ConsecutiveErrorsCounted(batch_success, errors) == errors + 1

\* consecutive_errors after the attempts of a batch: "consecutive_errors = 0"
\* of the attempt that succeeded, "consecutive_errors += 1" when none did
ConsecutiveErrors(batch_success, errors) == IF batch_success THEN 0 ELSE errors + 1

\* TooManyFailures that lets the threshold itself pass
TooManyFailuresAbove(errors) == errors > options.max_consecutive_failures

\* "if consecutive_errors >= max_consecutive_failures": the long cooldown
\* of LongCooldown seconds is due
TooManyFailures(errors) == errors >= options.max_consecutive_failures

\* RetriesLeft that allows one retry more
RetriesLeftAndOne(attempt) == attempt <= options.batch_retries

\* "for attempt in range(batch_retries + 1)": another attempt follows
RetriesLeft(attempt) == attempt < options.batch_retries

\* asyncio.gather of process_domain_batch returns: the results are
\* reconciled with the table and committed; update_domain_prices retries a
\* batch with less than half successes while retries are left, and otherwise
\* adds the statistics of this attempt to all_results and adapts its delay
BatchGathered ==
    /\ stage = "pricing"
    /\ p_pc = "gather"
    /\ \A k \in Slots : p_workers[k].pc \in {"idle", "returned"}
    /\ LET batch == PricingBatch(domains, p_start)
           done == Reconcile([results |-> EmptyResults, table |-> store],
                             GatheredResults, options.max_price)
           batch_success == BatchSuccess(done.results, batch)
           errors == ConsecutiveErrors(batch_success, consecutive_errors)
           all == AddResults(all_results, done.results)
       IN  /\ store' = done.table
           /\ batch_results' = done.results
           /\ IF ~batch_success /\ RetriesLeft(p_attempt)
              THEN /\ p_pc' = "retry_sleep"
                   /\ p_attempt' = p_attempt + 1
                   /\ UNCHANGED <<stage, consecutive_errors, current_delay, all_results>>
              ELSE /\ consecutive_errors' = errors
                   /\ all_results' = all
                   /\ UNCHANGED p_attempt
                   /\ IF TooManyFailures(errors)
                      THEN p_pc' = "long_cooldown" /\ UNCHANGED <<stage, current_delay>>
                      ELSE /\ current_delay' =
                                 IF errors > 0
                                 THEN Min(30, options.batch_cooldown * Pow2(errors - 1))
                                 ELSE options.batch_cooldown
                           /\ EndOfIteration(all)
    /\ UNCHANGED <<run, inputVars, domains, p_start, tld_price_cache, tld_lookups,
                   p_workers>>
    /\ UNCHANGED <<scoringVars, checkVars>>

\* the sleep before the retry of a batch is over: the same batch is handed
\* to process_domain_batch again
RetrySleepDone ==
    /\ stage = "pricing"
    /\ p_pc = "retry_sleep"
    /\ p_pc' = "gather"
    /\ p_workers' = StartPricers(PricingBatch(domains, p_start))
    /\ UNCHANGED <<store, stage, run, inputVars, domains, p_start, p_attempt,
                   consecutive_errors,
                   current_delay, all_results, batch_results, tld_price_cache,
                   tld_lookups>>
    /\ UNCHANGED <<scoringVars, checkVars>>

\* the long cooldown after too many consecutive failing batches is over
LongCooldownDone ==
    /\ stage = "pricing"
    /\ p_pc = "long_cooldown"
    /\ consecutive_errors' = 0
    /\ current_delay' = options.batch_cooldown
    /\ EndOfIteration(all_results)
    /\ UNCHANGED <<store, run, inputVars, domains, p_start, p_attempt, all_results,
                   batch_results,
                   tld_price_cache, tld_lookups, p_workers>>
    /\ UNCHANGED <<scoringVars, checkVars>>

\* the pause between two batches is over: the next iteration starts, with a
\* cooldown first when the last batch failed, and else with its batch
PricingPauseDone ==
    /\ stage = "pricing"
    /\ p_pc = "pause"
    /\ p_start' = p_start + batch_size
    /\ p_attempt' = 0
    /\ IF consecutive_errors > 0
       THEN p_pc' = "cooldown" /\ UNCHANGED p_workers
       ELSE p_pc' = "gather" /\ p_workers' = StartPricers(PricingBatch(domains, p_start'))
    /\ UNCHANGED <<store, stage, run, inputVars, domains, consecutive_errors, current_delay,
                   all_results, batch_results, tld_price_cache, tld_lookups>>
    /\ UNCHANGED <<scoringVars, checkVars>>

\* the seconds slept in the cooldown before a batch
Cooldown == current_delay * Pow2(Min(consecutive_errors - 1, 5))

\* the cooldown is over: the batch is handed to process_domain_batch
CooldownDone ==
    /\ stage = "pricing"
    /\ p_pc = "cooldown"
    /\ p_pc' = "gather"
    /\ p_workers' = StartPricers(PricingBatch(domains, p_start))
    /\ UNCHANGED <<store, stage, run, inputVars, domains, p_start, p_attempt,
                   consecutive_errors,
                   current_delay, all_results, batch_results, tld_price_cache,
                   tld_lookups>>
    /\ UNCHANGED <<scoringVars, checkVars>>

----------------------------------------------------------------------------
(* The availability stage: main of check_domains.py and its coroutines     *)

\* the size of a chunk (chunk_size = 100 in main), scaled down
ChunkSize == 2

\* domain_pairs: every word with every TLD
DomainPairs == AvailableDomains

\* An answer to the request of check: a response with its [status], or an
\* exception of the class [exc]
RdapStatus(status) == [exc |-> "", status |-> status]

RdapRaises(class) == [exc |-> class, status |-> 0]

RdapAnswers ==
    {RdapStatus(404), RdapStatus(200), RdapStatus(500),
     RdapRaises("TimeoutError"), RdapRaises("ClientError")}

\* the status check gives a domain for an answer
StatusOf(answer) ==
    IF answer.exc = "TimeoutError" THEN "Timeout"
    ELSE IF answer.exc # "" THEN "Error"
    ELSE IF answer.status = 404 THEN "Available"
    ELSE IF answer.status = 200 THEN "Taken"
    ELSE "Unknown"

\* tasks[i:i+chunk_size]
Chunk(i) == SubSeq(DomainPairs, i + 1, Min(i + ChunkSize, Len(DomainPairs)))

\* the coroutines asyncio.gather starts for a chunk: each runs up to its
\* request; the semaphore of 200 slots never makes one of a chunk wait
StartChecks(chunk) ==
    [k \in Slots |->
        IF k > Len(chunk) THEN NoCheck
        ELSE [NoCheck EXCEPT !.domain = chunk[k], !.pc = "calling"]]

\* the results of the coroutines, in the order of the chunk
ChunkResults ==
    [k \in 1..Len(Chunk(c_start)) |-> Row(checks[k].domain, checks[k].status)]

\* main up to its first suspension: the first chunk is handed to
\* asyncio.gather
StartChecking ==
    /\ stage = "none"
    /\ s_pc = "idle"
    /\ p_pc = "idle"
    /\ run < MaxRuns
    /\ run' = run + 1
    /\ stage' = "checking"
    /\ c_pc' = "gather"
    /\ c_start' = 0
    /\ c_results' = <<>>
    /\ available_domains' = <<>>
    /\ checks' = StartChecks(Chunk(0))
    /\ UNCHANGED <<store, inputVars, availability_csv>>
    /\ UNCHANGED <<scoringVars, pricingVars>>

\* the answer to the request of coroutine k arrives: an available domain is
\* added to available_domains, and the coroutine returns its row
ProbeReturns(k, answer) ==
    /\ stage = "checking"
    /\ c_pc = "gather"
    /\ checks[k].pc = "calling"
    /\ LET status == StatusOf(answer)
       IN  /\ checks' = [checks EXCEPT ![k].pc = "returned", ![k].status = status]
           /\ available_domains' =
                  IF status = "Available"
                  THEN Append(available_domains, checks[k].domain)
                  ELSE available_domains
    /\ UNCHANGED <<store, stage, run, inputVars, c_pc, c_start, c_results,
                   availability_csv>>
    /\ UNCHANGED <<scoringVars, pricingVars>>

\* asyncio.gather returns: the rows of the chunk are added to results; the
\* next chunk is gathered, or, after the last one, results is written to
\* the file and main returns
ChunkGathered ==
    /\ stage = "checking"
    /\ c_pc = "gather"
    /\ \A k \in Slots : checks[k].pc \in {"idle", "returned"}
    /\ c_results' = c_results \o ChunkResults
    /\ IF c_start + ChunkSize < Len(DomainPairs)
       THEN /\ c_start' = c_start + ChunkSize
            /\ checks' = StartChecks(Chunk(c_start'))
            /\ UNCHANGED <<stage, c_pc, availability_csv, csv>>
       ELSE /\ availability_csv' = Some(c_results')
            /\ csv' = AvailableRows(c_results')
            /\ c_pc' = "done"
            /\ stage' = "none"
            /\ UNCHANGED <<c_start, checks>>
    /\ UNCHANGED <<store, run, batch_size, options, available_domains>>
    /\ UNCHANGED <<scoringVars, pricingVars>>

\* signal_handler of check_domains.py: SIGINT or SIGTERM arrives while main
\* waits for a chunk, and sys.exit(0) ends the process there
ExitSignal ==
    /\ stage = "checking"
    /\ c_pc = "gather"
    /\ c_pc' = "exited"
    /\ stage' = "none"
    /\ UNCHANGED <<store, run, inputVars, c_start, c_results, available_domains, checks,
                   availability_csv>>
    /\ UNCHANGED <<scoringVars, pricingVars>>

----------------------------------------------------------------------------
(* The specifications *)

\* Runs over the whole file: the APIs answer from the smaller sets and
\* every delay has its least jitter
Next ==
    \/ StartScoring
    \/ \E proceed \in BOOLEAN, c0 \in InitialConcurrencies : ApiTestDone(proceed, c0)
    \/ \E k \in Slots : AcquireSlot(k)
    \/ \E k \in Slots, api \in RunAnswers : CallReturns(k, api, 0)
    \/ \E k \in Slots : WakeUp(k)
    \/ GatherDone
    \/ PauseDone
    \/ ShutdownSignal
    \/ StartPricing
    \/ \E k \in Slots, answer \in CheckRunAnswers : CheckReturns(k, answer, 0)
    \/ \E k \in Slots, tanswer \in TldAnswers : TldPriceReturns(k, tanswer)
    \/ \E k \in Slots : PricerWakeUp(k)
    \/ BatchGathered
    \/ RetrySleepDone
    \/ LongCooldownDone
    \/ PricingPauseDone
    \/ CooldownDone

Spec == Init /\ [][Next]_vars

\* Runs over two domains, one after the other: the APIs answer from the full
\* sets and the jitter of a delay varies
NextWorker ==
    \/ StartScoring
    \/ \E proceed \in BOOLEAN, c0 \in InitialConcurrencies : ApiTestDone(proceed, c0)
    \/ \E k \in Slots : AcquireSlot(k)
    \/ \E k \in Slots, api \in ScoringAnswers, jitter \in 0..(JitterRes - 1) :
          CallReturns(k, api, jitter)
    \/ \E k \in Slots : WakeUp(k)
    \/ GatherDone
    \/ PauseDone
    \/ ShutdownSignal
    \/ StartPricing
    \/ \E k \in Slots, answer \in CheckAnswers, jitter \in 0..(JitterRes - 1) :
          CheckReturns(k, answer, jitter)
    \/ \E k \in Slots, tanswer \in TldAnswers : TldPriceReturns(k, tanswer)
    \/ \E k \in Slots : PricerWakeUp(k)
    \/ BatchGathered
    \/ RetrySleepDone
    \/ LongCooldownDone
    \/ PricingPauseDone
    \/ CooldownDone

SpecWorker == InitWorker /\ [][NextWorker]_vars

\* the answers drawn in the runs over one batch: an error that is not
\* retried, a domain that is taken, a domain at the standard price
RetryAnswers == {ApiError(Some(InvalidApiKey)), IsTaken, IsStandard}

\* Runs of the pricing stage over one batch of all the domains
NextRetry ==
    \/ StartPricing
    \/ \E k \in Slots, answer \in RetryAnswers : CheckReturns(k, answer, 0)
    \/ \E k \in Slots, tanswer \in TldAnswers : TldPriceReturns(k, tanswer)
    \/ BatchGathered
    \/ RetrySleepDone

SpecRetry == InitRetry /\ [][NextRetry]_vars

\* the answers drawn in the runs with other arguments
OptionAnswers ==
    {ApiError(Some(InvalidApiKey)), IsTaken, IsPremium(12000), IsPremium(NanPrice),
     IsStandard}

\* Runs of the pricing stage with other arguments than the default ones
NextOptions ==
    \/ StartPricing
    \/ \E k \in Slots, answer \in OptionAnswers : CheckReturns(k, answer, 0)
    \/ \E k \in Slots, tanswer \in TldAnswers : TldPriceReturns(k, tanswer)
    \/ BatchGathered
    \/ RetrySleepDone
    \/ LongCooldownDone
    \/ PricingPauseDone
    \/ CooldownDone

SpecOptions == InitOptions /\ [][NextOptions]_vars

\* the clean batches after which the concurrency is at its ceiling, and the
\* batches with too many rate limits after which it is at its floor
BatchesToCeiling == (MaxConcurrency - DefaultConcurrency) \div ConcurrencyIncrease

BatchesToFloor == (DefaultConcurrency - MinConcurrency) \div ConcurrencyDecrease

\* concurrency after n batches that each left the counter
RECURSIVE ConcurrencyAfter(_, _)
ConcurrencyAfter(n, counter) ==
    IF n = 0 THEN DefaultConcurrency
    ELSE AdjustConcurrency(ConcurrencyAfter(n - 1, counter), counter)

\* the table after the scoring stage was refused each domain of a list for
\* its rate limit, in every attempt
RateLimitedTable(list) ==
    LET limited == ScoreAttempt(Raises(ExcRateLimit), MaxRetriesScoring - 1, 0).result
    IN  [d \in Domains |->
            IF \E i \in 1..Len(list) : list[i] = d
            THEN InsertResult(EmptyTable, d, limited)[d]
            ELSE None]

\* main sleeps after the n-th batch of a scoring run over a list, from an
\* empty table, in batches of size: every call of the run was answered by
\* the object asked for (limited false), or by the rate limit (limited true)
MidRun(list, size, n, limited) ==
    LET counter == IF limited
                   THEN [success |-> 0, errors |-> size,
                         rate_limits |-> MaxRetriesScoring * size, high_scores |-> {}]
                   ELSE [success |-> size, errors |-> 0, rate_limits |-> 0,
                         high_scores |-> {}]
        done == SubSeq(list, 1, n * size)
        last == SubSeq(list, (n - 1) * size + 1, n * size)
        returned(d) ==
            IF limited
            THEN [NoWorker EXCEPT
                     !.pc = "returned", !.domain = d, !.wrote = TRUE,
                     !.attempt = MaxRetriesScoring - 1,
                     !.waits = [a \in 1..(MaxRetriesScoring - 1) |->
                                   BackoffDelay(RetryDelayScoring, a - 1, 0)],
                     !.rate_limited = MaxRetriesScoring]
            ELSE [NoWorker EXCEPT !.pc = "returned", !.domain = d, !.wrote = TRUE]
    IN  /\ csv = list
        /\ availability_csv = FileOf(list)
        /\ batch_size = size
        /\ options = DefaultOptions
        /\ store = IF limited THEN RateLimitedTable(done) ELSE ScoredTable(done)
        /\ stage = "scoring"
        /\ run = MaxRuns
        /\ s_pc = "pause"
        /\ processed_domains = {}
        /\ domains_to_score = list
        /\ batch_start = (n - 1) * size
        /\ concurrency = ConcurrencyAfter(n, counter)
        /\ semaphore = concurrency
        /\ batch_counter = counter
        /\ totals = [success |-> n * counter.success, errors |-> n * counter.errors,
                     rate_limits |-> n * counter.rate_limits]
        /\ high_scores = {}
        /\ error_counts = [t \in ScoringErrorTypes |->
                              IF t = "Rate Limit" THEN n * counter.errors ELSE 0]
        /\ shutdown_requested = FALSE
        /\ workers = [k \in Slots |-> IF k <= size THEN returned(last[k]) ELSE NoWorker]
        /\ PricingIdle
        /\ CheckingIdle

\* a scoring run of up to BatchesToCeiling + 1 batches of one domain, or of
\* up to BatchesToFloor + 1 batches of two: at its start, or asleep after
\* batches that were all clean, or all refused for the rate limit, with one
\* batch left
InitAdapt ==
    \/ InitWith(AvailableDomains, 2, {EmptyTable})
    \/ \E n \in 1..BatchesToCeiling : MidRun(SubSeq(AllDomains, 1, n + 1), 1, n, FALSE)
    \/ \E n \in 1..BatchesToFloor : MidRun(SubSeq(AllDomains, 1, 2 * n + 2), 2, n, TRUE)

\* Runs of the scoring stage with the program's own concurrency
NextAdapt ==
    \/ StartScoring
    \/ \E proceed \in BOOLEAN : ApiTestDone(proceed, DefaultConcurrency)
    \/ \E k \in Slots : AcquireSlot(k)
    \/ \E k \in Slots : CallReturns(k, Answers(GoodObject), 0)
    \/ \E k \in Slots : \E jitter \in 0..(JitterRes - 1) :
          CallReturns(k, Raises(ExcRateLimit), jitter)
    \/ \E k \in Slots : WakeUp(k)
    \/ GatherDone
    \/ PauseDone

SpecAdapt == InitAdapt /\ [][NextAdapt]_vars

\* the table after a scoring run in which the response for the first domain
\* of the list had a NaN member, and a pricing run ranked by memorability
\* that found the domain at its standard price
NanPricedTable(list) ==
    LET first == list[1]
        scored == InsertResult(EmptyTable, first,
                               ScoreAttempt(Answers(NanObject), 0, 0).result)
    IN  UpdateDomainPriceInDb(scored, first,
                              PriceStandard(first, GetStandardPriceForTld(TldOf(first))))

\* two domains in one batch
InitBatch ==
    LET list == SubSeq(AvailableDomains, 1, 2)
    IN  InitWith(list, 2, {EmptyTable, ScoredTable(list), NanPricedTable(list)})

\* the answers drawn in the runs over one batch: a good one, and the ways a
\* call fails by an exception or by a body that cannot be read
BatchScoringAnswers ==
    {Answers(GoodObject), Answers(<<Prose>>)} \cup {Raises(m) : m \in ScoringExceptions}

BatchCheckAnswers ==
    {IsStandard, Malformed, HttpStatus(500),
     CheckRaises("ClientError", CannotConnect), CheckRaises("Exception", <<>>)}

\* Runs over one batch of two domains, every delay with its least jitter
NextBatch ==
    \/ StartScoring
    \/ \E proceed \in BOOLEAN, c0 \in InitialConcurrencies : ApiTestDone(proceed, c0)
    \/ \E k \in Slots : AcquireSlot(k)
    \/ \E k \in Slots, api \in BatchScoringAnswers : CallReturns(k, api, 0)
    \/ \E k \in Slots : WakeUp(k)
    \/ GatherDone
    \/ StartPricing
    \/ \E k \in Slots, answer \in BatchCheckAnswers : CheckReturns(k, answer, 0)
    \/ \E k \in Slots, tanswer \in TldAnswers : TldPriceReturns(k, tanswer)
    \/ \E k \in Slots : PricerWakeUp(k)
    \/ BatchGathered
    \/ RetrySleepDone

SpecBatch == InitBatch /\ [][NextBatch]_vars

\* a file that lists a domain twice, in lower case and in upper case: both
\* rows pass drop_duplicates, which compares the strings as they are
CaseVariants == <<AllDomains[1], AllDomains[Len(AllDomains)]>>

\* the two in one batch, on an empty table and on tables that have the
\* scores of one of them
InitCase ==
    InitWith(CaseVariants, 2,
             {EmptyTable, ScoredTable(<<CaseVariants[1]>>), ScoredTable(<<CaseVariants[2]>>)})

SpecCase == InitCase /\ [][NextBatch]_vars

\* two domains, one by one, with no retry of a batch, with one and with two
InitTerm ==
    LET list == SubSeq(AvailableDomains, 1, 2)
    IN  InitWithOptions(list, 1, {ScoredTable(list)}, RetryOptions)

\* the answers drawn in these runs: a status that is retried, an error that
\* is not, a domain that is taken and one at the standard price
TermAnswers == {HttpStatus(500), ApiError(Some(InvalidApiKey)), IsTaken, IsStandard}

\* Runs of the pricing stage, every delay with its least jitter
NextTerm ==
    \/ StartPricing
    \/ \E k \in Slots, answer \in TermAnswers : CheckReturns(k, answer, 0)
    \/ \E k \in Slots, tanswer \in TldAnswers : TldPriceReturns(k, tanswer)
    \/ \E k \in Slots : PricerWakeUp(k)
    \/ BatchGathered
    \/ RetrySleepDone
    \/ LongCooldownDone
    \/ PricingPauseDone
    \/ CooldownDone

SpecTerm == InitTerm /\ [][NextTerm]_vars

\* every call returns or fails and every sleep ends: the event loop runs a
\* coroutine that can go on
FairSpecTerm == SpecTerm /\ WF_vars(NextTerm)

\* Runs of the availability stage, which start without a file
InitCheck == InitWith(<<>>, ChunkSize, {EmptyTable})

NextCheck ==
    \/ StartChecking
    \/ \E k \in Slots, answer \in RdapAnswers : ProbeReturns(k, answer)
    \/ ChunkGathered
    \/ ExitSignal

SpecCheck == InitCheck /\ [][NextCheck]_vars

----------------------------------------------------------------------------
(* The properties *)

C2_OneLookupPerTld == \A t \in Tlds : tld_lookups[t] <= 1

\* the delays of a sequence never decrease
NonDecreasing(delays) == \A i \in 1..(Len(delays) - 1) : delays[i] <= delays[i + 1]

\* the delays are base_delay * 2^attempt + jitter, jitter in [0, 1), for the
\* attempts 0, 1, ... in turn
BackoffDelays(delays, base) ==
    \A i \in 1..Len(delays) :
        /\ delays[i] >= base * Pow2(i - 1) * JitterRes
        /\ delays[i] < (base * Pow2(i - 1) + 1) * JitterRes

\* a worker has returned and every answer it got was a rate-limit signal
OnlyRateLimited(w) == w.pc = "returned" /\ w.rate_limited = w.attempt + 1

\* C3: a worker all of whose attempts are answered with a rate-limit signal
\* makes exactly max_retries attempts, sleeps base_delay * 2^attempt + jitter
\* between them, each delay at least the one before, and only then returns
\* an error with null result fields
C3_RateLimitedWorker ==
    /\ \A k \in Slots :
          LET w == workers[k]
          IN  (w.wrote /\ OnlyRateLimited(w)) =>
                  /\ w.attempt + 1 = MaxRetriesScoring
                  /\ Len(w.waits) = MaxRetriesScoring - 1
                  /\ BackoffDelays(w.waits, RetryDelayScoring)
                  /\ NonDecreasing(w.waits)
                  /\ Get(store[w.domain]).error # None
                  /\ Get(store[w.domain]).average_score = None
    /\ \A k \in Slots :
          LET w == p_workers[k]
          IN  OnlyRateLimited(w) =>
                  /\ w.attempt + 1 = MAX_RETRIES
                  /\ Len(w.waits) = MAX_RETRIES - 1
                  /\ BackoffDelays(w.waits, RETRY_DELAY)
                  /\ NonDecreasing(w.waits)
                  /\ Truthy(Get(w.result).error)
                  /\ Get(w.result).price = None

\* the errors of a batch that are filed under other types than "Rate Limit"
OtherErrorTypes(results) ==
    results.errors - results.error_types["Rate Limit"]

\* C4: a worker that used up its retries on rate-limit signals is counted
\* under "Rate Limit" and under no other type: in the scoring stage when it
\* returns, in the pricing stage when its batch is reconciled
C4_RateLimitTally ==
    [][/\ \A k \in Slots :
             (/\ workers[k].pc = "calling"
              /\ workers'[k].pc = "returned"
              /\ workers'[k].rate_limited = MaxRetriesScoring)
             => error_counts' = [error_counts EXCEPT !["Rate Limit"] = @ + 1]
       /\ (stage = "pricing" /\ p_pc = "gather" /\ p_pc' # "gather") =>
             LET exhausted == Cardinality({k \in Slots :
                                  /\ p_workers[k].pc = "returned"
                                  /\ p_workers[k].rate_limited = MAX_RETRIES})
             IN  /\ batch_results'.error_types["Rate Limit"] >= exhausted
                 /\ OtherErrorTypes(batch_results') <= batch_results'.errors - exhausted
      ]_vars

\* the elements of a list
ListSet(list) == {list[i] : i \in 1..Len(list)}

\* the candidates of a pricing run that starts with a table
Candidates(table) ==
    ListSet(GetDomainsToProcess(table, Quantity, SortField, IncludeTaken, SkipPriced))

\* the items of the batch that process_domain_batch is given
BatchItems == ListSet(PricingBatch(domains, p_start))

\* the items whose outcome has an error
Failing ==
    {p_workers[k].domain : k \in {j \in Slots : /\ p_workers[j].pc = "returned"
                                                /\ Truthy(Get(p_workers[j].result).error)}}

\* a step that reconciles the outcomes of a batch with the table
Reconciles == stage = "pricing" /\ p_pc = "gather" /\ p_pc' # "gather"

ScoringComplete(record) == record # None /\ Get(record).average_score # None

\* and for the pricing stage when it has a price type
PricingComplete(record) ==
    /\ record # None
    /\ Get(record).price_type # None
    /\ Get(Get(record).price_type) # "Error"

\* C6: a run of a stage changes no record that was complete for the stage
\* when the run started, and sends no request for the domain of a complete
\* record, whatever the answers are, in a first run and in the next
C6_CompleteRecordsKept ==
    [][/\ \A d \in Domains :
             /\ (stage = "scoring" /\ ScoringComplete(store[d])) => store'[d] = store[d]
             /\ (stage = "pricing" /\ PricingComplete(store[d]) /\ d \notin ListSet(domains))
                   => store'[d] = store[d]
       /\ \A k \in Slots :
             workers'[k].pc = "calling" => ~ScoringComplete(store'[workers'[k].domain])
       /\ (stage = "none" /\ stage' = "pricing") =>
             \A d \in ListSet(domains') : ~PricingComplete(store[d])
       /\ \A k \in Slots :
             p_workers'[k].pc = "calling" => p_workers'[k].domain \in ListSet(domains')
      ]_vars

\* two runs of the pricing stage in which every request failed have ended,
\* and the record that was priced before them is as it was
C6_Witness ==
    /\ run = 2 /\ stage = "none" /\ p_pc = "done"
    /\ all_results.errors > 0
    /\ all_results.success = 0
    /\ store[AvailableDomains[1]] = PartTable(AvailableDomains)[AvailableDomains[1]]
    /\ PricingComplete(store[AvailableDomains[1]])
    /\ store[AvailableDomains[3]] = None

\* C7: once shutdown_requested is set in a scoring run, the batch in flight
\* is finished before the run ends and no later batch is dispatched
C7_GracefulShutdown ==
    [][(stage = "scoring" /\ shutdown_requested) =>
          /\ batch_start' = batch_start
          /\ stage' = "none" => \A k \in Slots : workers[k].pc \in {"idle", "returned"}
      ]_vars

\* the records that are complete for the scoring stage
CompleteRecords == {d \in Domains : ScoringComplete(store[d])}

\* a scoring run has ended at a shutdown request, after a batch
StoppedByShutdown ==
    /\ stage = "none" /\ s_pc = "done" /\ shutdown_requested
    /\ \E k \in Slots : workers[k].pc = "returned"

SubScores(row) ==
    <<row.memorability, row.pronunciation, row.visual_appeal, row.brandability>>

\* C9: the average score of a record is the mean of the four sub-scores of
\* the same record
C9_AverageIsMean ==
    \A d \in Domains :
        (/\ ScoringComplete(store[d])
         /\ \A i \in 1..4 : SubScores(Get(store[d]))[i] # None)
        => LET sub == SubScores(Get(store[d]))
           IN  Get(Get(store[d]).average_score)
                  = Frac(Get(sub[1]) + Get(sub[2]) + Get(sub[3]) + Get(sub[4]), 4)

\* C10: a record has an average score only if it has the four sub-scores,
\* each a number from 1 to 10
C10_ScoresValidated ==
    \A d \in Domains :
        ScoringComplete(store[d]) =>
            \A i \in 1..4 :
                LET score == SubScores(Get(store[d]))[i]
                IN  score # None /\ Get(score) >= 1 /\ Get(score) <= 10

\* a step that starts a run of the scoring stage
ScoringStarts == stage = "none" /\ run' = run + 1 /\ s_pc' # "idle"

\* a worker that has a request to send or has sent it
Dispatched(w) == w.pc \in {"waiting", "calling", "sleeping"}

\* C11: a run of the scoring stage lists exactly the domains of the file
\* whose record has no average score, a record with an error alone among
\* them; its workers are given domains of that list only, and a domain that
\* had an average score when the run started gets no worker and keeps its
\* record
C11_DispatchedIffUnscored ==
    [][/\ ScoringStarts =>
             ListSet(domains_to_score')
                 = {d \in ListSet(csv) : ~ScoringComplete(store[d])}
       /\ \A k \in Slots :
             Dispatched(workers'[k]) =>
                 /\ workers'[k].domain \in ListSet(domains_to_score')
                 /\ Lower(workers'[k].domain) \notin processed_domains'
       /\ \A d \in Domains :
             (stage = "scoring" /\ Lower(d) \in processed_domains) => store'[d] = store[d]
      ]_vars

\* in a second run a worker sends a request for a domain whose record holds
\* an error alone, and a domain with an average score is not on the list
C11_Witness ==
    /\ run = 2 /\ stage = "scoring"
    /\ \E k \in Slots :
          /\ workers[k].pc = "calling"
          /\ store[workers[k].domain] # None
          /\ Get(store[workers[k].domain]).error # None
          /\ Get(store[workers[k].domain]).average_score = None
    /\ \E d \in ListSet(csv) :
          ScoringComplete(store[d]) /\ d \notin ListSet(domains_to_score)

\* a step that starts a run of the pricing stage
PricingStarts == stage = "none" /\ run' = run + 1 /\ p_pc' # "idle"

\* the scored records that are not priced
Unpriced(table) ==
    {d \in Domains : ScoringComplete(table[d]) /\ ~PricingComplete(table[d])}

\* the rank of a record by a field, a NULL coming last
Rank(table, d, sort_field) ==
    LET value == SortValue(Get(table[d]), sort_field)
    IN  IF value = None THEN [num |-> -1, den |-> 1]
        ELSE AsFrac(sort_field, Get(value))

\* C12: a pricing run that skips the taken and the priced domains lists the
\* scored records that are not priced, by the ranking field in descending
\* order, and as many of them as the quantity allows
C12_CandidateList ==
    [][(PricingStarts /\ ~options.include_taken /\ options.skip_priced) =>
          LET field == options.sort_field
              expected == Unpriced(store)
              quantity == IF options.quantity = None
                          THEN Cardinality(expected)
                          ELSE Min(Get(options.quantity), Cardinality(expected))
          IN  /\ ListSet(domains') \subseteq expected
              /\ Cardinality(ListSet(domains')) = Len(domains')
              /\ Len(domains') = quantity
              /\ \A i \in 1..Len(domains'), j \in 1..Len(domains') :
                    i < j => ~FracLess(Rank(store, domains'[i], field),
                                       Rank(store, domains'[j], field))
              /\ \A d \in expected \ ListSet(domains'), i \in 1..Len(domains') :
                    ~FracLess(Rank(store, domains'[i], field), Rank(store, d, field))
      ]_vars

\* the errors counted in all have reached the limit max_errors
CappedAt(all) ==
    /\ options.max_errors # None
    /\ Get(options.max_errors) # 0
    /\ all.errors >= Get(options.max_errors)

\* C16: once the errors of a run have reached max_errors after a batch, the
\* run hands out no batch any more: it ends at once or, after too many
\* failing batches in a row, when its long cooldown is over; the table then
\* stays as the batches left it, every domain counted as a success with its
\* price type
C16_StopsAtErrorCap ==
    [][/\ (stage = "pricing" /\ CappedAt(all_results)) =>
             /\ p_pc = "long_cooldown"
             /\ p_pc' = "done" /\ stage' = "none"
             /\ store' = store /\ p_workers' = p_workers /\ p_start' = p_start
       /\ (stage = "pricing" /\ CappedAt(all_results')) =>
             /\ p_pc' \in {"done", "long_cooldown"}
             /\ \A d \in ListSet(all_results'.success_domains) :
                   PricingComplete(store'[d])
      ]_vars

\* a run has ended at the limit with a batch priced and batches left
C16_Witness ==
    /\ stage = "none" /\ p_pc = "done"
    /\ CappedAt(all_results)
    /\ all_results.success > 0
    /\ p_start + batch_size < Len(domains)

\* C18: the cooldown before a batch is slept only after a failing batch, and
\* for batch_cooldown * 2^min(k - 1, 5) seconds after k failing batches in
\* a row
C18_CooldownBeforeBatch ==
    p_pc = "cooldown" =>
        /\ consecutive_errors > 0
        /\ Cooldown = options.batch_cooldown * Pow2(Min(consecutive_errors - 1, 5))

\* the rows of the file, none while there is no file
FileRows == IF availability_csv = None THEN {} ELSE ListSet(Get(availability_csv))

\* a batch of the pricing stage has been reconciled
BatchFinished == p_pc \in {"retry_sleep", "long_cooldown", "pause", "cooldown", "done"}

\* C13: what is persisted holds the outcomes of every batch that has
\* finished, while the run goes on and after it was interrupted: the file
\* of the availability stage has the rows of the chunks gathered, the table
\* has a record for every domain a scoring worker returned for, and a price
\* type for every domain a pricing batch counted as a success
C13_PersistedPerBatch ==
    /\ (stage = "checking" \/ c_pc = "exited") => ListSet(c_results) \subseteq FileRows
    /\ \A k \in Slots : workers[k].wrote => store[workers[k].domain] # None
    /\ BatchFinished =>
          \A d \in ListSet(batch_results.success_domains) : PricingComplete(store[d])

\* the scoring workers that have returned with an outcome
Wrote == {k \in Slots : workers[k].wrote}

\* a batch of the pricing stage has its statistics and the next one has not
\* started
Reconciled == p_pc \in {"retry_sleep", "long_cooldown", "pause", "done"}

\* C14: every item of a batch ends in one outcome, a success or an error,
\* whatever its call answered or raised: a scoring worker that returned wrote
\* a record; a pricing
\* worker that returned has a result for its domain, with an error exactly
\* when its type is "Error"; and the statistics of a reconciled batch list
\* every item once, among the successes or among the errors
C14_OneOutcomePerItem ==
    /\ \A k \in Wrote :
          /\ workers[k].pc = "returned"
          /\ store[workers[k].domain] # None
    /\ \A k \in Slots :
          p_workers[k].pc = "returned" =>
              /\ p_workers[k].result # None
              /\ Get(p_workers[k].result).domain = p_workers[k].domain
              /\ Get(p_workers[k].result).price_type \in {"Error", "Taken", "Premium", "Standard"}
              /\ Truthy(Get(p_workers[k].result).error)
                    <=> Get(p_workers[k].result).price_type = "Error"
    /\ Reconciled =>
          /\ \A k \in 1..Len(PricingBatch(domains, p_start)) : p_workers[k].pc = "returned"
          /\ batch_results.success + batch_results.errors = Len(PricingBatch(domains, p_start))
          /\ ListSet(batch_results.success_domains) \cup ListSet(batch_results.error_domains)
                = BatchItems
          /\ ListSet(batch_results.success_domains) \cap ListSet(batch_results.error_domains)
                = {}

\* a batch of two was reconciled with one item priced and the other failed
\* by an exception in each of its attempts
C14_Witness ==
    /\ Reconciled
    /\ batch_results.success = 1 /\ batch_results.errors = 1
    /\ \E k \in Slots :
          /\ p_workers[k].attempt = MAX_RETRIES - 1
          /\ Get(p_workers[k].result).error
               = Some(CheckAttempt(CheckRaises("Exception", <<>>),
                                   MAX_RETRIES - 1, 0).error_msg)

\* the fields of a record the scoring stage owns, and those the pricing
\* stage owns
ScoringFields(r) ==
    <<r.memorability, r.pronunciation, r.visual_appeal, r.brandability,
      r.average_score, r.raw_json>>

PricingFields(r) == <<r.price, r.price_type, r.pricing_data>>

\* C15: a step of the scoring stage leaves the price, the price type and
\* the pricing data of every record as they were, and a step of the pricing
\* stage leaves its four sub-scores, its average and its raw response as they
\* were
C15_OtherStageFieldsKept ==
    [][\A d \in Domains :
          store[d] # None =>
              /\ stage = "scoring" =>
                    /\ store'[d] # None
                    /\ PricingFields(Get(store'[d])) = PricingFields(Get(store[d]))
              /\ stage = "pricing" =>
                    /\ store'[d] # None
                    /\ ScoringFields(Get(store'[d])) = ScoringFields(Get(store[d]))]_vars

\* the scoring worker k got its authentication failure in its last call,
\* returned, and its record has the error of the type "Auth Error"
ScoringAuthFailed(k) ==
    /\ workers[k].auth_failures = 1
    /\ workers[k].pc = "returned"
    /\ store[workers[k].domain] # None
    /\ Get(store[workers[k].domain]).error = Some(<<"A","u","t","h","e","n","t","i","c","a","t","i","o","n"," ","E","r","r","o","r",":"," ">> \o ExcAuth)

\* the same for the pricing worker k and the type process_domain_batch
\* gives its error
PricingAuthFailed(k) ==
    /\ p_workers[k].auth_failures = 1
    /\ p_workers[k].pc = "returned"
    /\ Truthy(Get(p_workers[k].result).error)
    /\ ErrorTypeOf(Get(Get(p_workers[k].result).error)) = "Auth Error"

\* C17: a worker of either stage whose call failed with an authentication
\* failure made no call after it: it has returned, with an outcome of the
\* type "Auth Error"
C17_AuthFailsAtOnce ==
    \A k \in Slots :
        /\ workers[k].auth_failures > 0 => ScoringAuthFailed(k)
        /\ p_workers[k].auth_failures > 0 => PricingAuthFailed(k)

\* the items of the batch in flight whose worker returned without an error
Succeeded ==
    {k \in 1..Len(PricingBatch(domains, p_start)) :
        /\ p_workers[k].pc = "returned"
        /\ ~Truthy(Get(p_workers[k].result).error)}

\* fewer than half of the items of the batch succeeded in this attempt
LowSuccess == Cardinality(Succeeded) * 2 < Len(PricingBatch(domains, p_start))

\* C19: when an attempt of a batch is over the batch is retried iff fewer
\* than half of its items succeeded and fewer than batch_retries retries were
\* made; a retry hands the same batch to the workers again; there are never
\* more than batch_retries retries; an attempt in which half of the items
\* succeeded ends the retries with no consecutive error, and a failing last
\* attempt adds one
C19_RetryIffLowSuccess ==
    [][/\ (p_pc = "gather" /\ p_pc' # "gather") =>
             /\ p_pc' = "retry_sleep" <=> (LowSuccess /\ p_attempt < options.batch_retries)
             /\ p_pc' = "retry_sleep" => p_attempt' = p_attempt + 1
             /\ ~LowSuccess => consecutive_errors' = 0
             /\ (LowSuccess /\ p_pc' # "retry_sleep") =>
                   consecutive_errors' = consecutive_errors + 1
       /\ (p_pc = "retry_sleep" /\ p_pc' # "retry_sleep") =>
             /\ p_pc' = "gather"
             /\ <<domains', p_start'>> = <<domains, p_start>>
             /\ \A k \in 1..Len(PricingBatch(domains, p_start)) :
                   /\ p_workers'[k].pc = "calling"
                   /\ p_workers'[k].domain = PricingBatch(domains, p_start)[k]
       /\ p_attempt' <= options.batch_retries]_vars

\* a batch of three failed twice, and half of it succeeded in the second
\* and last retry
C19_Witness ==
    /\ p_pc = "done"
    /\ Len(PricingBatch(domains, p_start)) = 3
    /\ options.batch_retries = 2
    /\ p_attempt = 2
    /\ Cardinality(Succeeded) = 2
    /\ consecutive_errors = 0

\* C20: the retry of a batch starts a call only for the domains whose
\* record is not complete for the pricing stage, and while a retry is under
\* way no complete record changes
C20_RetryOnlyUnreconciled ==
    [][/\ (p_pc = "retry_sleep" /\ p_pc' = "gather") =>
             \A k \in Slots :
                 p_workers'[k].pc = "calling" =>
                     ~PricingComplete(store[p_workers'[k].domain])
       /\ (stage = "pricing" /\ p_attempt > 0) =>
             \A d \in Domains : PricingComplete(store[d]) => store'[d] = store[d]]_vars

\* the attempt of a batch that is over is the last one of the batch
AcceptedAttempt == p_pc = "gather" /\ p_pc' \notin {"gather", "retry_sleep"}

\* C21: the step that accepts an attempt of a pricing batch sets
\* consecutive_errors to 0 when at least half of the items succeeded in it
\* and adds 1 otherwise; the only other steps that change it are the end of
\* the long cooldown and the start of a run, which set it to 0
C21_ConsecutiveFailures ==
    [][/\ AcceptedAttempt =>
             consecutive_errors' = IF LowSuccess THEN consecutive_errors + 1 ELSE 0
       /\ (~AcceptedAttempt /\ consecutive_errors' # consecutive_errors) =>
             /\ p_pc = "long_cooldown" \/ stage = "none"
             /\ consecutive_errors' = 0]_vars

\* a second batch in a row was accepted with less than half of its items
\* succeeding, below the threshold of the long cooldown
C21_Witness ==
    /\ stage = "pricing"
    /\ p_pc = "pause"
    /\ LowSuccess
    /\ consecutive_errors = 2
    /\ options.max_consecutive_failures > 2

\* a batch is about to be handed to the workers, or is with them
BatchStarts == stage = "pricing" /\ p_pc \in {"cooldown", "gather"}

\* C22: an accepted attempt that brings consecutive_errors to
\* max_consecutive_failures is followed by the long cooldown, whose end sets
\* consecutive_errors to 0 and current_delay to batch_cooldown; so a batch
\* starts with consecutive_errors below a max_consecutive_failures of 1 or
\* more
C22_LongCooldownResets ==
    [][/\ AcceptedAttempt =>
             (p_pc' = "long_cooldown"
                 <=> consecutive_errors' >= options.max_consecutive_failures)
       /\ (p_pc = "long_cooldown" /\ p_pc' # "long_cooldown") =>
             /\ consecutive_errors' = 0
             /\ current_delay' = options.batch_cooldown
             /\ p_pc' \in {"pause", "done"}
       /\ (BatchStarts' /\ options.max_consecutive_failures >= 1) =>
             consecutive_errors' < options.max_consecutive_failures]_vars

\* the batch after a long cooldown has started
C22_Witness ==
    /\ stage = "pricing"
    /\ p_pc = "gather"
    /\ p_start = 2 * batch_size
    /\ all_results.errors = 2
    /\ consecutive_errors = 0
    /\ current_delay = options.batch_cooldown
    /\ options.max_consecutive_failures = 2

\* C23: the concurrency of a scoring run is 20 when the run starts and
\* when its first batch does, and between 5 and 40 ever after; it changes,
\* within a run, only in the step that ends a batch, when no worker holds a
\* slot or waits for one, and then it goes down by 5 at most or up by 2 at
\* most
C23_ConcurrencyBounds ==
    [][/\ 5 <= concurrency' /\ concurrency' <= 40
       /\ (stage = "none" /\ stage' = "scoring") => concurrency' = 20
       /\ (s_pc = "apitest" /\ s_pc' = "gather") => concurrency' = 20
       /\ (stage = "scoring" /\ concurrency' # concurrency) =>
             /\ s_pc = "gather" /\ s_pc' \in {"pause", "done"}
             /\ \A k \in Slots : workers[k].pc \in {"idle", "returned"}
             /\ concurrency - 5 <= concurrency'
             /\ concurrency' <= concurrency + 2]_vars

\* the fourth batch in a row with more than 5 rate limits has ended: the
\* concurrency stays at its floor
C23_Witness ==
    /\ s_pc = "done"
    /\ batch_size = 2
    /\ batch_start = BatchesToFloor * batch_size
    /\ totals.rate_limits = (BatchesToFloor + 1) * batch_size * MaxRetriesScoring
    /\ concurrency = 5

\* a worker of the batch got a rate-limit signal
RateLimitSeen == \E k \in Slots : workers[k].rate_limited > 0

\* C24: when a batch ends and another follows, the concurrency goes down
\* if a worker of the batch got a rate-limit signal, unless it is 5 already,
\* and goes up if none did and it is below 40
C24_AdaptsToRateLimits ==
    [][(stage = "scoring" /\ s_pc = "gather" /\ s_pc' = "pause") =>
          /\ (RateLimitSeen /\ concurrency > 5) => concurrency' < concurrency
          /\ (~RateLimitSeen /\ concurrency < 40) => concurrency' > concurrency]_vars

\* the scoring worker k returned the error of the type "Other Error" for
\* the server's failure
ScoringOtherError(k) ==
    /\ workers[k].wrote
    /\ store[workers[k].domain] # None
    /\ Get(store[workers[k].domain]).error = Some(<<"E","r","r","o","r",":"," ">> \o ExcServer)

\* the pricing worker k returned the error of the handler "except Exception"
PricingOtherError(k) ==
    /\ p_workers[k].pc = "returned"
    /\ Get(p_workers[k].result).error
         = Some(<<"U","n","e","x","p","e","c","t","e","d"," ","e","r","r","o","r",":"," ">>)

\* C25: a worker of either stage that reports an error of the kind "other"
\* has made all its attempts, with a sleep after each but the last
C25_OtherErrorRetried ==
    \A k \in Slots :
        /\ ScoringOtherError(k) =>
              /\ workers[k].attempt = MaxRetriesScoring - 1
              /\ Len(workers[k].waits) = MaxRetriesScoring - 1
        /\ PricingOtherError(k) =>
              /\ p_workers[k].attempt = MAX_RETRIES - 1
              /\ Len(p_workers[k].waits) = MAX_RETRIES - 1

\* the scoring worker k returned the error of a call that found no
\* connection
ScoringNetworkError(k) ==
    /\ workers[k].wrote
    /\ store[workers[k].domain] # None
    /\ Get(store[workers[k].domain]).error
         = Some(<<"E","r","r","o","r",":"," ">> \o ExcConnection)

\* the pricing worker k returned the error of the handler
\* "except aiohttp.ClientError"
PricingNetworkError(k) ==
    /\ p_workers[k].pc = "returned"
    /\ Get(p_workers[k].result).error = Some(ClientErrorMessage(CannotConnect))

\* C26: a scoring or pricing worker that reports the error of a call that
\* failed in the network has made all its attempts, with a sleep after each
\* but the last
C26_NetworkErrorRetried ==
    \A k \in Slots :
        /\ ScoringNetworkError(k) =>
              /\ workers[k].attempt = MaxRetriesScoring - 1
              /\ Len(workers[k].waits) = MaxRetriesScoring - 1
        /\ PricingNetworkError(k) =>
              /\ p_workers[k].attempt = MAX_RETRIES - 1
              /\ Len(p_workers[k].waits) = MAX_RETRIES - 1

\* the repair of the handler of json.JSONDecodeError succeeds for a text
Repairable(text) ==
    LET parsed == JsonLoads(AggressiveClean(text))
    IN  parsed.ok /\ AverageOf(parsed).ok

\* the error of a response that could not be parsed
JsonError == <<"J","S","O","N"," ","E","r","r","o","r",":"," ">> \o JsonDecodeMessage

\* C27: a scoring worker reports a JSON error only for a text the repair
\* fails for, and a record without an error holds a text that parses; a
\* pricing worker that got a body that is not XML made no call after it: it
\* has returned, with the XML parsing error
C27_MalformedNeverRetried ==
    \A k \in Slots :
        /\ (workers[k].wrote /\ store[workers[k].domain] # None) =>
              LET r == Get(store[workers[k].domain])
              IN  /\ r.error = Some(JsonError) => ~Repairable(Get(r.raw_json))
                  /\ (r.error = None /\ r.raw_json # None) => JsonLoads(Get(r.raw_json)).ok
        /\ p_workers[k].malformed > 0 =>
              /\ p_workers[k].malformed = 1
              /\ p_workers[k].pc = "returned"
              /\ Get(p_workers[k].result).error
                   = Some(CheckAttempt(Malformed, MAX_RETRIES - 1, 0).error_msg)

\* every coroutine of the batch in flight has completed
BatchCompleted ==
    \A k \in Slots : /\ workers[k].pc \in {"idle", "returned"}
                     /\ p_workers[k].pc \in {"idle", "returned"}

\* C28: a step that changes the table leaves no worker of the current
\* batch in flight: the writes of a batch come after all of its tasks
C28_WritesAfterBatch == [][store' # store => BatchCompleted']_vars

\* worker k has returned the Standard price of its domain
ReturnedStandard(k) ==
    /\ p_workers[k].pc = "returned"
    /\ p_workers[k].result # None
    /\ Get(p_workers[k].result).price_type = "Standard"

\* C29: a write to the price cache of a TLD that holds a price stores that
\* price again, and the Standard domains of one TLD in a batch get one price
C29_OnePricePerTld ==
    [][/\ \A t \in Tlds :
            (tld_price_cache[t] # None /\ tld_price_cache'[t] # None)
                => tld_price_cache'[t] = tld_price_cache[t]
       /\ \A k, j \in Slots :
            (ReturnedStandard(k)' /\ ReturnedStandard(j)'
                /\ TldTable[p_workers'[k].domain] = TldTable[p_workers'[j].domain])
                => Get(p_workers'[k].result).price = Get(p_workers'[j].result).price]_vars

\* the diagnostic payload of an outcome, without its timestamp
PricingData(result) ==
    [domain |-> result.domain, available |-> result.available,
     price_type |-> result.price_type, price |-> result.price,
     error |-> result.error]

\* the outcomes with an error among the results a batch is reconciled with
FailingResults ==
    {r \in {GatheredResults[k] : k \in 1..Len(GatheredResults)} :
        Truthy(r.error) /\ store[r.domain] # None}

\* C30: reconciling an outcome with an error changes nothing of the record
\* but its pricing data, which become the payload of that outcome with its
\* error: the price and the price type stay, and a candidate of the next
\* run stays one
C30_ErrorKeepsPrice ==
    [][Reconciles =>
          \A r \in FailingResults :
              /\ store'[r.domain] # None
              /\ Get(store'[r.domain])
                   = [Get(store[r.domain]) EXCEPT !.pricing_data = Some(PricingData(r))]
              /\ Get(store'[r.domain]).price = Get(store[r.domain]).price
              /\ Get(store'[r.domain]).price_type = Get(store[r.domain]).price_type
              /\ r.domain \in Candidates(store) => r.domain \in Candidates(store')]_vars

\* a batch was reconciled in which an outcome had an error for a record
\* with the price type of an earlier attempt, which it has kept
C30_Witness ==
    /\ Reconciled
    /\ \E k \in Slots :
          /\ p_workers[k].pc = "returned"
          /\ Truthy(Get(p_workers[k].result).error)
          /\ store[p_workers[k].domain] # None
          /\ LET row == Get(store[p_workers[k].domain])
             IN  /\ row.price_type = Some("Taken")
                 /\ row.pricing_data = Some(PricingData(Get(p_workers[k].result)))

StartsWith(s, prefix) == Len(s) >= Len(prefix) /\ SubSeq(s, 1, Len(prefix)) = prefix

\* the handler of check_domain_availability that built an error message, by
\* the name of the statistics bucket of its cause
CauseOf(error_msg) ==
    IF StartsWith(error_msg, <<"X","M","L"," ","p","a","r","s","i","n","g"," ","e","r","r","o","r",":"," ">>)
    THEN "XML Error"
    ELSE IF StartsWith(error_msg, <<"N","e","t","w","o","r","k"," ","e","r","r","o","r",":"," ">>)
    THEN "Network Error"
    ELSE IF StartsWith(error_msg, <<"T","i","m","e","o","u","t"," ","e","r","r","o","r",":"," ">>)
    THEN "Timeout"
    ELSE IF StartsWith(error_msg, <<"C","o","n","n","e","c","t","i","o","n"," ","e","r","r","o","r",":"," ">>)
    THEN "Connection Error"
    ELSE "API Error"

\* the workers of the batch whose outcome has an error of a cause
FailedBy(cause) ==
    {k \in Slots : /\ p_workers[k].pc = "returned"
                   /\ Truthy(Get(p_workers[k].result).error)
                   /\ CauseOf(Get(Get(p_workers[k].result).error)) = cause}

\* C31: the statistics of a reconciled batch count under "XML Error",
\* "Network Error", "Timeout" and "Connection Error" the outcomes whose
\* error has that cause, and under "API Error" none of them
C31_ErrorsTalliedByCause ==
    Reconciled =>
        /\ \A cause \in {"XML Error", "Network Error", "Timeout", "Connection Error"} :
              batch_results.error_types[cause] = Cardinality(FailedBy(cause))
        /\ batch_results.error_types["API Error"] <= Cardinality(FailedBy("API Error"))

\* the values of availability_status
AvailabilityStatuses == {"Available", "Taken", "Unknown", "Error"}

\* C32: a lookup that returned has one of the four statuses, and its
\* domain is in available_domains exactly when the status is Available
C32_StatusOfLookup ==
    \A k \in Slots :
        checks[k].pc = "returned" =>
            /\ checks[k].status \in AvailabilityStatuses
            /\ checks[k].domain \in ListSet(available_domains)
                  <=> checks[k].status = "Available"

\* the records with an average score that are marked Taken
MarkedTaken(table) ==
    {d \in Domains : /\ table[d] # None
                     /\ Get(table[d]).average_score # None
                     /\ Get(table[d]).price_type = Some("Taken")}

\* the options are the defaults but for include_taken
DefaultsBut(include_taken) == options = [DefaultOptions EXCEPT !.include_taken = include_taken]

\* C33: a pricing run with include_taken and the other options at their
\* defaults has the records marked Taken in its list of candidates, and a
\* run without it has none of them
C33_IncludeTaken ==
    [][PricingStarts =>
          /\ DefaultsBut(TRUE) => MarkedTaken(store) \subseteq ListSet(domains')
          /\ DefaultsBut(FALSE) => MarkedTaken(store) \cap ListSet(domains') = {}]_vars

\* C34: at the end of a pricing run no domain of its error_domains has a
\* complete record, and each of them is a candidate of the next run
C34_ErrorDomainsRetried ==
    (p_pc = "done" /\ run > 0) =>
        \A d \in ListSet(all_results.error_domains) :
            /\ ~PricingComplete(store[d])
            /\ d \in Candidates(store)

\* the records of a table that differ from the domain in letter case only
CaseVariantsOf(table, domain) ==
    {d \in Domains : d # domain /\ table[d] # None /\ Lower(d) = Lower(domain)}

\* C35: the table never has two records whose domains are equal but for the
\* case of their letters, and a run of the scoring stage lists no domain of
\* which such a record has an average score
C35_CaseInsensitiveKey ==
    [][/\ \A d \in Domains : store'[d] # None => CaseVariantsOf(store', d) = {}
       /\ ScoringStarts =>
             \A i \in 1..Len(domains_to_score') :
                 \A d \in CaseVariantsOf(store, domains_to_score'[i]) :
                     ~ScoringComplete(store[d])]_vars

\* all_results['total'], which the summary prints as the domains processed:
\* total_domains = len(domains), set before the first batch
TotalProcessed == Len(domains)

\* the domains of the batches the run has handed out
DispatchedDomains == Min(p_start + batch_size, Len(domains))

\* a pricing run with candidates has ended
PricingRunEnded == run > 0 /\ p_pc = "done" /\ domains # <<>>

\* C36: at the end of a pricing run the total of the summary is the number
\* of domains the run dispatched, and the sum of its successes and errors
C36_TotalProcessed ==
    PricingRunEnded =>
        /\ TotalProcessed = DispatchedDomains
        /\ TotalProcessed = all_results.success + all_results.errors

CountedErrors ==
    error_counts["JSON Error"] + error_counts["Rate Limit"] + error_counts["Auth Error"]
    + error_counts["Model Error"] + error_counts["Other Error"]

\* C38: after every batch of a scoring run the tallies of error_counts add
\* up to the errors of the run; an item whose response was repaired is in
\* neither
C38_ErrorTallies ==
    s_pc \in {"pause", "done"} => CountedErrors = totals.errors

\* the most requests of check_domain_availability sent so far for the
\* domain of worker k: MAX_RETRIES in each earlier attempt of its batch, and
\* one per attempt of the worker in this one
RequestsAtMost(k) == p_attempt * MAX_RETRIES + p_workers[k].attempt + 1

RECURSIVE NoDuplicates(_)
NoDuplicates(list) ==
    \/ list = <<>>
    \/ /\ Head(list) \notin ListSet(Tail(list))
       /\ NoDuplicates(Tail(list))

\* within a run a domain is in one batch, a batch has at most
\* batch_retries + 1 attempts, and a worker sends at most MAX_RETRIES requests
CallsBounded ==
    /\ NoDuplicates(domains)
    /\ p_attempt <= options.batch_retries
    /\ \A k \in Slots :
          p_workers[k].pc # "idle" =>
              /\ p_workers[k].attempt < MAX_RETRIES
              /\ RequestsAtMost(k) <= (options.batch_retries + 1) * MAX_RETRIES

\* C39: a pricing run that has started ends, and at no time has a domain
\* had more than (batch_retries + 1) * MAX_RETRIES requests
C39_TerminatesBounded ==
    /\ []CallsBounded
    /\ (stage = "pricing") ~> (p_pc = "done")

\* the last request the bound allows: the third of the third attempt of a
\* batch
C39_Witness ==
    /\ options.batch_retries = MaxBatchRetries
    /\ \E k \in Slots :
          /\ p_workers[k].pc = "calling"
          /\ RequestsAtMost(k) = (MaxBatchRetries + 1) * MAX_RETRIES

\* the price types of a priced record
WrittenPriceTypes == {"Standard", "Premium", "Taken", "Filtered"}

\* C40: a record with a price type has one of the four types of a priced
\* record, no price when it is Taken and a price otherwise
C40_PriceTypeAndPrice ==
    \A d \in Domains :
        (store[d] # None /\ Get(store[d]).price_type # None) =>
            LET row == Get(store[d])
            IN  /\ Get(row.price_type) \in WrittenPriceTypes
                /\ Get(row.price_type) = "Taken" => row.price = None
                /\ Get(row.price_type) # "Taken" => row.price # None

====
